---- MODULE Spec2Model ----
(***************************************************************************)
(* Model of the mask conversational-agent orchestrator: the LangGraph      *)
(* workflow (retrieve -> router -> {search -> scrape | scrape | -} ->      *)
(* coordinator) of src/core/graph/workflow.py and the agents it calls.     *)
(*                                                                         *)
(* Text is modelled as a sequence of one-character strings, so that the    *)
(* string operations of the source (strip, upper, lower, split, replace,   *)
(* substring test, the router's URL pattern) are computed, not assumed.    *)
(* An AgentState is a dict: a function from the keys that are present to   *)
(* their values.                                                           *)
(***************************************************************************)
EXTENDS Integers, Sequences, FiniteSets, TLC

VARIABLES
    state,  \* the AgentState dict handed to the next stage
    pc,     \* the stage that runs next ("END" when the turn is over)
    trace   \* one record per stage that ran: its input, the dict it returned,
            \* the capability calls it made and the external outcomes it saw

vars == <<state, pc, trace>>

(***************************************************************************)
(* Dicts                                                                   *)
(***************************************************************************)
\* F(v), with v evaluated once before F is applied to its value
With(v, F(_)) == CHOOSE r \in {F(w) : w \in {v}} : TRUE

EmptyDict == <<>>

Get(d, k, default) == IF k \in DOMAIN d THEN d[k] ELSE default

Put(d, k, v) ==
    With(<<d, v>>, LAMBDA a :
        [x \in (DOMAIN a[1]) \cup {k} |-> IF x = k THEN a[2] ELSE a[1][x]])

Restrict(d, keys) == With(d, LAMBDA a : [x \in (DOMAIN a) \cap keys |-> a[x]])

(***************************************************************************)
(* Text                                                                    *)
(***************************************************************************)
LowerLetters == <<"a","b","c","d","e","f","g","h","i","j","k","l","m",
                  "n","o","p","q","r","s","t","u","v","w","x","y","z">>

UpperLetters == <<"A","B","C","D","E","F","G","H","I","J","K","L","M",
                  "N","O","P","Q","R","S","T","U","V","W","X","Y","Z">>

Digits == {"0","1","2","3","4","5","6","7","8","9"}

Range(f) == {f[i] : i \in DOMAIN f}

IndexIn(seq, c) == CHOOSE i \in DOMAIN seq : seq[i] = c

UpperChar(c) == IF c \in Range(LowerLetters) THEN UpperLetters[IndexIn(LowerLetters, c)] ELSE c

LowerChar(c) == IF c \in Range(UpperLetters) THEN LowerLetters[IndexIn(UpperLetters, c)] ELSE c

Upper(s) == [i \in DOMAIN s |-> UpperChar(s[i])]

Lower(s) == [i \in DOMAIN s |-> LowerChar(s[i])]

IsSpace(c) == c \in {" ", "\n", "\t"}

IsDigit(c) == c \in Digits

\* \w of the re module
IsWordChar(c) == c \in Range(LowerLetters) \cup Range(UpperLetters) \cup Digits \cup {"_"}

\* [\da-fA-F]
IsHex(c) == c \in Digits \cup {"a","b","c","d","e","f","A","B","C","D","E","F"}

RECURSIVE LStrip(_)
LStrip(s) == IF s # <<>> /\ IsSpace(Head(s)) THEN LStrip(Tail(s)) ELSE s

RECURSIVE RStrip(_)
RStrip(s) == IF s # <<>> /\ IsSpace(s[Len(s)]) THEN RStrip(SubSeq(s, 1, Len(s) - 1)) ELSE s

Strip(s) == RStrip(LStrip(s))

HasPrefixAt(s, i, p) == i + Len(p) - 1 <= Len(s) /\ SubSeq(s, i, i + Len(p) - 1) = p

\* needle in s
Contains(s, needle) == \E i \in 1..(Len(s) + 1) : HasPrefixAt(s, i, needle)

\* s.replace(c, '')
RECURSIVE RemoveChar(_, _)
RemoveChar(s, c) ==
    IF s = <<>> THEN <<>>
    ELSE IF Head(s) = c THEN RemoveChar(Tail(s), c)
    ELSE <<Head(s)>> \o RemoveChar(Tail(s), c)

\* s.split(c)
RECURSIVE SplitFrom(_, _, _)
SplitFrom(s, c, cur) ==
    IF s = <<>> THEN <<cur>>
    ELSE IF Head(s) = c THEN <<cur>> \o SplitFrom(Tail(s), c, <<>>)
    ELSE SplitFrom(Tail(s), c, Append(cur, Head(s)))

Split(s, c) == SplitFrom(s, c, <<>>)

\* s.split(c, 1)[-1]
AfterFirst(s, c) ==
    IF \E i \in DOMAIN s : s[i] = c
    THEN LET i == CHOOSE j \in DOMAIN s : s[j] = c /\ \A k \in 1..(j - 1) : s[k] # c
         IN SubSeq(s, i + 1, Len(s))
    ELSE s

RECURSIVE Join(_)
Join(ss) == IF ss = <<>> THEN <<>> ELSE Head(ss) \o Join(Tail(ss))

RECURSIVE JoinWith(_, _)
JoinWith(ss, sep) ==
    IF ss = <<>> THEN <<>>
    ELSE IF Len(ss) = 1 THEN Head(ss)
    ELSE Head(ss) \o sep \o JoinWith(Tail(ss), sep)

\* all sequences of at most n elements of S
RECURSIVE SeqsOfLen(_, _)
SeqsOfLen(S, n) == IF n = 0 THEN {<<>>} ELSE {<<x>> \o r : x \in S, r \in SeqsOfLen(S, n - 1)}

SeqsUpTo(S, n) == UNION {SeqsOfLen(S, k) : k \in 0..n}

(***************************************************************************)
(* Router: the URL pattern of router_node                                  *)
(*   https?://(?:[-\w.]|(?:%[\da-fA-F]{2}))+[^\s]*                         *)
(***************************************************************************)
HTTP == <<"h","t","t","p",":","/","/">>

HTTPS == <<"h","t","t","p","s",":","/","/">>

\* length of the text that https?:// matches at position i, 0 when it does not
SchemeLenAt(q, i) ==
    IF HasPrefixAt(q, i, HTTPS) THEN Len(HTTPS)
    ELSE IF HasPrefixAt(q, i, HTTP) THEN Len(HTTP)
    ELSE 0

\* one repetition of (?:[-\w.]|(?:%[\da-fA-F]{2})) matches at position j
HostUnitAt(q, j) ==
    /\ j <= Len(q)
    /\ \/ q[j] \in {"-", "."}
       \/ IsWordChar(q[j])
       \/ q[j] = "%" /\ j + 2 <= Len(q) /\ IsHex(q[j + 1]) /\ IsHex(q[j + 2])

\* the last position of the run of non-whitespace that starts at j
RECURSIVE NonSpaceRunEnd(_, _)
NonSpaceRunEnd(q, j) ==
    IF j > Len(q) \/ IsSpace(q[j]) THEN j - 1 ELSE NonSpaceRunEnd(q, j + 1)

\* the <<first, last>> positions of the non-overlapping matches, scanning from i
RECURSIVE UrlSpansFrom(_, _)
UrlSpansFrom(q, i) ==
    IF i > Len(q) THEN <<>>
    ELSE LET n == SchemeLenAt(q, i)
         IN IF n > 0 /\ HostUnitAt(q, i + n)
            THEN LET e == NonSpaceRunEnd(q, i + n)
                 IN <<<<i, e>>>> \o UrlSpansFrom(q, e + 1)
            ELSE UrlSpansFrom(q, i + 1)

UrlSpans(q) == UrlSpansFrom(q, 1)

\* re.findall(url_pattern, user_query)
FindUrls(q) == [k \in DOMAIN UrlSpans(q) |-> SubSeq(q, UrlSpans(q)[k][1], UrlSpans(q)[k][2])]

(***************************************************************************)
(* SearchAgent.should_search: the search-decision classifier.              *)
(* cls is the outcome of llm.chat: it raises, or returns a message dict.   *)
(***************************************************************************)
YES == <<"Y","E","S">>

\* the decision as it would be without .upper()
should_search_case_sensitive(query, conversation_history, cls) ==
    IF cls.raises THEN FALSE
    ELSE Contains(Strip(Get(cls.msg, "content", <<>>)), YES)

should_search_agent(query, conversation_history, cls) ==
    IF cls.raises THEN FALSE
    ELSE LET response == Get(cls.msg, "content", <<>>)
             decision == Upper(Strip(response))
         IN Contains(decision, YES)

\* the router as it would be if it asked the classifier before looking for URLs
router_node_asks_first(s, cls) ==
    LET user_query == s["user_query"]
        direct_urls == FindUrls(user_query)
        needs_search == should_search_agent(user_query, Get(s, "messages", <<>>), cls)
    IN IF direct_urls # <<>>
       THEN [ret |-> Put(Put(Put(s, "urls_to_scrape", direct_urls),
                             "needs_search", needs_search),
                         "direct_scrape", TRUE),
             calls |-> << <<"chat", "should_search">> >>]
       ELSE [ret |-> Put(Put(s, "needs_search", needs_search), "direct_scrape", FALSE),
             calls |-> << <<"chat", "should_search">> >>]

(***************************************************************************)
(* MaskWorkflow.router_node. Returns the dict the node returns and the     *)
(* capability calls it made.                                               *)
(***************************************************************************)
router_node(s, cls) ==
    LET user_query == s["user_query"]
        direct_urls == FindUrls(user_query)
    IN IF direct_urls # <<>>
       THEN [ret |-> Put(Put(Put(s, "urls_to_scrape", direct_urls),
                               "needs_search", FALSE),
                           "direct_scrape", TRUE),
             calls |-> <<>>]
       ELSE LET needs_search ==
                    should_search_agent(user_query, Get(s, "messages", <<>>), cls)
            IN [ret |-> Put(Put(s, "needs_search", needs_search),
                              "direct_scrape", FALSE),
                calls |-> << <<"chat", "should_search">> >>]

(***************************************************************************)
(* SearchAgent.extract_search_queries. exp is the outcome of llm.chat.     *)
(***************************************************************************)
\* the body of the for loop: the query a reply line yields, <<>> when none
ParseLine(line) ==
    With(RemoveChar(RemoveChar(Strip(line), "*"), "\""), LAMBDA clean :
        IF clean # <<>> /\ (IsDigit(clean[1]) \/ clean[1] = "-")
        THEN Strip(AfterFirst(AfterFirst(clean, "."), "-"))
        ELSE <<>>)

RECURSIVE ParseLines(_)
ParseLines(lines) ==
    IF lines = <<>> THEN <<>>
    ELSE With(<<ParseLine(Head(lines)), Tail(lines)>>, LAMBDA a :
             LET query == a[1]
             IN (IF query # <<>> THEN <<query>> ELSE <<>>) \o ParseLines(a[2]))

\* the expansion as it would be if a failed call left no query at all
extract_search_queries_no_fallback(user_query, exp) ==
    IF exp.raises THEN <<>>
    ELSE LET response == Get(exp.msg, "content", <<>>)
             lines == Split(Strip(response), "\n")
         IN With(ParseLines(lines), LAMBDA queries :
                IF queries # <<>> THEN queries ELSE <<user_query>>)

extract_search_queries(user_query, exp) ==
    IF exp.raises THEN <<user_query>>
    ELSE LET response == Get(exp.msg, "content", <<>>)
             lines == Split(Strip(response), "\n")
         IN With(ParseLines(lines), LAMBDA queries :
                IF queries # <<>> THEN queries ELSE <<user_query>>)

(***************************************************************************)
(* SearchAgent.search and search_multiple. The outcome of one ddgs.text    *)
(* call: it raises, or returns result dicts.                               *)
(***************************************************************************)
SearchResult(result) ==
    [title |-> Get(result, "title", ""),
     url |-> Get(result, "href", Get(result, "link", <<>>)),
     snippet |-> Get(result, "body", Get(result, "snippet", ""))]

search(query, max_results, outcome) ==
    IF outcome.raises THEN <<>>
    ELSE [i \in DOMAIN outcome.results |-> SearchResult(outcome.results[i])]

SeenUrls(results) == {results[i].url : i \in DOMAIN results}

\* the inner loop as it would be without the seen_urls test
AddAll(all_results, results) == all_results \o results

\* the inner for loop: append the results whose url was not seen
RECURSIVE AddUnseen(_, _)
AddUnseen(all_results, results) ==
    IF results = <<>> THEN all_results
    ELSE IF Head(results).url \notin SeenUrls(all_results)
         THEN AddUnseen(Append(all_results, Head(results)), Tail(results))
         ELSE AddUnseen(all_results, Tail(results))

\* outcomes[k] is the outcome of the search for queries[k]
RECURSIVE SearchFrom(_, _, _, _, _)
SearchFrom(queries, max_results_per_query, outcomes, k, all_results) ==
    IF k > Len(queries) THEN all_results
    ELSE With(AddUnseen(all_results,
                        search(queries[k], max_results_per_query, outcomes[k])),
              LAMBDA seen :
                  SearchFrom(queries, max_results_per_query, outcomes, k + 1, seen))

search_multiple(queries, max_results_per_query, outcomes) ==
    SearchFrom(queries, max_results_per_query, outcomes, 1, <<>>)

(***************************************************************************)
(* MaskWorkflow.search_node. outcomes is a function from the index of an   *)
(* expanded query to the outcome of its search.                            *)
(***************************************************************************)
Take(seq, n) == SubSeq(seq, 1, IF Len(seq) < n THEN Len(seq) ELSE n)

\* the stage as it would be without the [:3] cut
search_node_no_cut(s, exp, outcomes) ==
    LET queries == extract_search_queries(s["user_query"], exp)
        results == search_multiple(queries, 3, outcomes)
    IN [ret |-> Put(Put(Put(Put(s, "search_performed", TRUE),
                            "search_queries", queries),
                        "search_results", results),
                    "urls_to_scrape", [i \in DOMAIN results |-> results[i].url]),
        calls |-> << <<"chat", "extract_search_queries">> >>
                  \o [k \in DOMAIN queries |-> <<"ddgs.text", queries[k]>>]]

\* the stage as it would be if it raised the flag only for a search that found something
search_node_flag_if_found(s, exp, outcomes) ==
    LET queries == extract_search_queries(s["user_query"], exp)
        results == search_multiple(queries, 3, outcomes)
        top == Take(results, 3)
    IN [ret |-> Put(Put(Put(Put(s, "search_performed", results # <<>>),
                            "search_queries", queries),
                        "search_results", results),
                    "urls_to_scrape", [i \in DOMAIN top |-> top[i].url]),
        calls |-> << <<"chat", "extract_search_queries">> >>
                  \o [k \in DOMAIN queries |-> <<"ddgs.text", queries[k]>>]]

search_node(s, exp, outcomes) ==
    With(extract_search_queries(s["user_query"], exp), LAMBDA queries :
    With(search_multiple(queries, 3, outcomes), LAMBDA results :
        LET top == Take(results, 3)
            urls == [i \in DOMAIN top |-> top[i].url]
        IN [ret |-> Put(Put(Put(Put(s, "search_performed", TRUE),
                                "search_queries", queries),
                            "search_results", results),
                        "urls_to_scrape", urls),
            calls |-> << <<"chat", "extract_search_queries">> >>
                      \o [k \in DOMAIN queries |-> <<"ddgs.text", queries[k]>>]]))

(***************************************************************************)
(* urllib.parse as scrape_url uses it: urlparse, urlunparse and urljoin on *)
(* URLs without parameters (";").                                          *)
(***************************************************************************)
\* the first position >= from of a character of chars in s, Len(s) + 1 when none
FirstOf(s, chars, from) ==
    With(s, LAMBDA text :
        With({i \in from..Len(text) : text[i] \in chars}, LAMBDA hits :
            IF hits = {} THEN Len(text) + 1
            ELSE CHOOSE i \in hits : \A j \in hits : i <= j))

IsLetter(c) == c \in Range(LowerLetters) \cup Range(UpperLetters)

\* the position of the ":" that ends a scheme, 0 when the text has no scheme
SchemeEnd(u) ==
    With(FirstOf(u, {":"}, 1), LAMBDA i :
        IF /\ 1 < i
           /\ i <= Len(u)
           /\ IsLetter(u[1])
           /\ \A k \in 1..(i - 1) : IsLetter(u[k]) \/ IsDigit(u[k]) \/ u[k] \in {"+", "-", "."}
        THEN i ELSE 0)

\* the parts of a URL whose text after the scheme is rest: the authority ends at
\* position n - 1, the fragment starts after position h, the query after q
SplitParts(scheme, rest, n, h, q) ==
    [scheme |-> scheme,
     netloc |-> IF n > 1 THEN SubSeq(rest, 3, n - 1) ELSE <<>>,
     path |-> SubSeq(rest, n, (IF q < h THEN q ELSE h) - 1),
     query |-> SubSeq(rest, q + 1, h - 1),
     fragment |-> SubSeq(rest, h + 1, Len(rest))]

\* urlparse(u, scheme=default)
urlparse(u, default) ==
    With(u, LAMBDA text :
        With(SchemeEnd(text), LAMBDA c :
            With(SubSeq(text, c + 1, Len(text)), LAMBDA rest :
                With(IF HasPrefixAt(rest, 1, <<"/", "/">>)
                     THEN FirstOf(rest, {"/", "?", "#"}, 3) ELSE 1, LAMBDA n :
                    With(<<FirstOf(rest, {"#"}, n), FirstOf(rest, {"?"}, n)>>, LAMBDA hq :
                        SplitParts(IF c > 0 THEN Lower(SubSeq(text, 1, c - 1)) ELSE default,
                                   rest, n, hq[1], hq[2]))))))

\* the schemes of uses_relative and uses_netloc that a web page can meet
UsesRelative == {<<"h","t","t","p">>, <<"h","t","t","p","s">>, <<"f","t","p">>, <<>>}

urlunparse(parts) ==
    With(parts, LAMBDA p :
        With(IF p.netloc # <<>> /\ p.path # <<>> /\ p.path[1] # "/"
             THEN <<"/">> \o p.path ELSE p.path, LAMBDA path :
            (IF p.scheme # <<>> THEN p.scheme \o <<":">> ELSE <<>>)
                \o (IF p.netloc # <<>> \/ (p.scheme # <<>> /\ ~HasPrefixAt(path, 1, <<"/", "/">>))
                    THEN <<"/", "/">> \o p.netloc \o path ELSE path)
                \o (IF p.query # <<>> THEN <<"?">> \o p.query ELSE <<>>)
                \o (IF p.fragment # <<>> THEN <<"#">> \o p.fragment ELSE <<>>)))

\* segments[1:-1] = filter(None, segments[1:-1])
DropEmptyInside(segments) ==
    IF Len(segments) < 3 THEN segments
    ELSE <<segments[1]>>
            \o SelectSeq(SubSeq(segments, 2, Len(segments) - 1), LAMBDA seg : seg # <<>>)
            \o <<segments[Len(segments)]>>

\* the loop that resolves the "." and ".." segments
RECURSIVE ResolveSegments(_, _)
ResolveSegments(segments, resolved_path) ==
    IF segments = <<>> THEN resolved_path
    ELSE IF Head(segments) = <<".", ".">>
         THEN ResolveSegments(Tail(segments),
                              IF resolved_path = <<>> THEN <<>>
                              ELSE SubSeq(resolved_path, 1, Len(resolved_path) - 1))
    ELSE IF Head(segments) = <<".">> THEN ResolveSegments(Tail(segments), resolved_path)
    ELSE ResolveSegments(Tail(segments), Append(resolved_path, Head(segments)))

\* the path of the join of a base whose path is bpath with the relative path
JoinPaths(bpath, path) ==
    With(Split(bpath, "/"), LAMBDA parts :
        With(IF path[1] = "/" THEN Split(path, "/")
             ELSE DropEmptyInside((IF parts[Len(parts)] # <<>>
                                   THEN SubSeq(parts, 1, Len(parts) - 1) ELSE parts)
                                      \o Split(path, "/")), LAMBDA segments :
            With(JoinWith(ResolveSegments(segments, <<>>)
                              \o (IF segments[Len(segments)] \in {<<".">>, <<".", ".">>}
                                  THEN << <<>> >> ELSE <<>>),
                          <<"/">>), LAMBDA joined :
                IF joined = <<>> THEN <<"/">> ELSE joined)))

urljoin(base, url) ==
    With(<<base, url>>, LAMBDA a :
        IF a[1] = <<>> THEN a[2]
        ELSE IF a[2] = <<>> THEN a[1]
        ELSE With(urlparse(a[1], <<>>), LAMBDA b :
                With(urlparse(a[2], b.scheme), LAMBDA r :
                    IF r.scheme # b.scheme \/ r.scheme \notin UsesRelative THEN a[2]
                    ELSE IF r.netloc # <<>> THEN urlunparse(r)
                    ELSE IF r.path = <<>>
                         THEN urlunparse([r EXCEPT !.netloc = b.netloc, !.path = b.path,
                                                   !.query = IF r.query = <<>> THEN b.query
                                                             ELSE r.query])
                    ELSE urlunparse([r EXCEPT !.netloc = b.netloc,
                                              !.path = JoinPaths(b.path, r.path)]))))

(***************************************************************************)
(* ScraperAgent.scrape_url. page is what the fetch of the URL meets:       *)
(*   kind "ok"        a 2xx answer whose HTML yields title, text and links *)
(*   kind "empty"     a 2xx answer with an empty body                      *)
(*   kind "nocontent" HTML without a body element                          *)
(*   kind "status"    a non-2xx answer (raise_for_status raises)           *)
(*   kind "timeout"   httpx.TimeoutException                               *)
(*   kind "raise"     any other exception, with its message text           *)
(* Of an "ok" page, content is the markdown text of the main element,      *)
(* hrefs are the href values of its <a> elements in document order, and    *)
(* order tells in which order the set of links is iterated.                *)
(* error is None or a text; Python tests it for truth.                     *)
(***************************************************************************)
None == "<None>"

\* the truth value Python gives an error field
Truthy(error) == error \notin {None, ""}

ScrapedContent(url, title, content, links, error) ==
    [url |-> url, title |-> title, content |-> content, links |-> links, error |-> error]

\* the filter as it would be without the comparison of hosts
IsInternalAnyHost(url, full_url) ==
    urlparse(full_url, <<>>).scheme \in {<<"h","t","t","p">>, <<"h","t","t","p","s">>}

\* parsed.netloc == base_domain and parsed.scheme in ('http', 'https')
IsInternal(url, full_url) ==
    With(urlparse(full_url, <<>>), LAMBDA parsed :
        parsed.netloc = urlparse(url, <<>>).netloc
            /\ parsed.scheme \in {<<"h","t","t","p">>, <<"h","t","t","p","s">>})

\* full_url.split('#')[0]
WithoutFragment(full_url) ==
    With(full_url, LAMBDA text : SubSeq(text, 1, FirstOf(text, {"#"}, 1) - 1))

\* the sequence urls without repeats, first occurrences kept
RECURSIVE Unique(_, _)
Unique(urls, seen) ==
    IF urls = <<>> THEN <<>>
    ELSE IF Head(urls) \in seen THEN Unique(Tail(urls), seen)
    ELSE <<Head(urls)>> \o Unique(Tail(urls), seen \cup {Head(urls)})

\* the elements of the set links after the loop over the <a href> elements,
\* listed in the order in which the document first adds them
InternalLinks(url, hrefs) ==
    With([i \in DOMAIN hrefs |-> urljoin(url, hrefs[i])], LAMBDA full_urls :
        With(SelectSeq(full_urls, LAMBDA full_url : IsInternal(url, full_url)), LAMBDA internal :
            With([i \in DOMAIN internal |-> WithoutFragment(internal[i])], LAMBDA links :
                Unique(links, {}))))

\* the order-th permutation of seq (the 0th is seq itself)
RECURSIVE Permute(_, _)
Permute(seq, order) ==
    With(<<seq, order>>, LAMBDA a :
        IF a[1] = <<>> THEN <<>>
        ELSE With((a[2] % Len(a[1])) + 1, LAMBDA i :
                <<a[1][i]>> \o Permute(SubSeq(a[1], 1, i - 1) \o SubSeq(a[1], i + 1, Len(a[1])),
                                       a[2] \div Len(a[1]))))

\* list(links): iterating a set of strings yields them in an order that the
\* hashes of the run decide; order says which
ListOf(links, order) == Permute(links, order)

\* the stripped non-blank lines of the text from position from on
RECURSIVE CleanLines(_, _)
CleanLines(markdown_text, from) ==
    IF from > Len(markdown_text) THEN <<>>
    ELSE With(FirstOf(markdown_text, {"\n"}, from), LAMBDA e :
            With(Strip(SubSeq(markdown_text, from, e - 1)), LAMBDA line :
                (IF line # <<>> THEN <<line>> ELSE <<>>) \o CleanLines(markdown_text, e + 1)))

\* "\n".join([line.strip() for line in markdown_text.splitlines() if line.strip()])
CleanText(markdown_text) ==
    With(markdown_text, LAMBDA text : JoinWith(CleanLines(text, 1), <<"\n">>))

ContentCeiling == 20000

TRUNCATED == <<".", ".", ".", "[", "t", "r", "u", "n", "c", "a", "t", "e", "d", "]">>

\* the cut as it would be if it added no marker
TruncateSilently(clean_text) ==
    With(clean_text, LAMBDA text :
        IF Len(text) > ContentCeiling THEN SubSeq(text, 1, ContentCeiling) ELSE text)

\* if len(clean_text) > 20000: clean_text = clean_text[:20000] + "...[truncated]"
Truncate(clean_text) ==
    With(clean_text, LAMBDA text :
        IF Len(text) > ContentCeiling THEN SubSeq(text, 1, ContentCeiling) \o TRUNCATED
        ELSE text)

\* the result for a page that was fetched and parsed
Scraped(url, page) ==
    ScrapedContent(url, page.title, Truncate(CleanText(page.content)),
                   ListOf(InternalLinks(url, page.hrefs), page.order), None)

scrape_url(url, page) ==
    With(<<url, page>>, LAMBDA a :
        CASE a[2].kind = "ok" -> Scraped(a[1], a[2])
          [] a[2].kind = "empty" -> ScrapedContent(a[1], "Error", <<>>, <<>>, "No content received")
          [] a[2].kind = "nocontent" ->
                ScrapedContent(a[1], a[2].title, <<>>, <<>>, "Could not find content")
          [] a[2].kind = "status" -> ScrapedContent(a[1], "Error", <<>>, <<>>, "HTTP 404")
          [] a[2].kind = "timeout" -> ScrapedContent(a[1], "Error", <<>>, <<>>, "Timeout")
          [] a[2].kind = "raise" -> ScrapedContent(a[1], "Error", <<>>, <<>>, a[2].message))

\* what client.get(url) meets on a site; a URL the site does not serve answers 404
Fetch(site, url) == IF url \in DOMAIN site THEN site[url] ELSE [kind |-> "status"]

(***************************************************************************)
(* ScraperAgent.crawl. site maps a URL to the page its fetch meets. A      *)
(* queue entry is <<url, depth>>. asyncio.gather returns the items of a    *)
(* batch in the order of the batch.                                        *)
(***************************************************************************)
\* the inner while loop as it would be if it did not skip visited URLs
RECURSIVE FillBatchRevisiting(_, _, _, _, _)
FillBatchRevisiting(queue, visited_urls, batch, nresults, max_pages) ==
    IF queue # <<>> /\ Len(batch) < 3 /\ nresults + Len(batch) < max_pages
    THEN FillBatchRevisiting(Tail(queue), visited_urls \cup {Head(queue)[1]},
                             Append(batch, Head(queue)), nresults, max_pages)
    ELSE [queue |-> queue, visited_urls |-> visited_urls, batch |-> batch]

\* the inner while loop: pop up to 3 unvisited URLs
RECURSIVE FillBatch(_, _, _, _, _)
FillBatch(queue, visited_urls, batch, nresults, max_pages) ==
    IF queue # <<>> /\ Len(batch) < 3 /\ nresults + Len(batch) < max_pages
    THEN IF Head(queue)[1] \in visited_urls
         THEN FillBatch(Tail(queue), visited_urls, batch, nresults, max_pages)
         ELSE FillBatch(Tail(queue), visited_urls \cup {Head(queue)[1]},
                        Append(batch, Head(queue)), nresults, max_pages)
    ELSE [queue |-> queue, visited_urls |-> visited_urls, batch |-> batch]

\* for link in new_links: if link not in visited_urls: queue.append((link, depth + 1))
RECURSIVE EnqueueLinks(_, _, _, _)
EnqueueLinks(queue, links, visited_urls, depth) ==
    IF links = <<>> THEN queue
    ELSE EnqueueLinks(IF Head(links) \notin visited_urls
                      THEN Append(queue, <<Head(links), depth + 1>>)
                      ELSE queue,
                      Tail(links), visited_urls, depth)

\* the for loop as it would be if it followed the links of a page at max_depth
RECURSIVE ProcessBatchOneDeeper(_, _, _, _, _, _)
ProcessBatchOneDeeper(batch, queue, visited_urls, results, max_depth, site) ==
    IF batch = <<>> THEN [queue |-> queue, results |-> results]
    ELSE With(scrape_url(Head(batch)[1], Fetch(site, Head(batch)[1])), LAMBDA item :
            IF Truthy(item.error)
            THEN ProcessBatchOneDeeper(Tail(batch), queue, visited_urls, results, max_depth, site)
            ELSE ProcessBatchOneDeeper(Tail(batch),
                                      IF Head(batch)[2] <= max_depth
                                      THEN EnqueueLinks(queue, item.links, visited_urls, Head(batch)[2])
                                      ELSE queue,
                                      visited_urls, Append(results, item), max_depth, site))

\* the for loop over the scraped items of a batch
RECURSIVE ProcessBatch(_, _, _, _, _, _)
ProcessBatch(batch, queue, visited_urls, results, max_depth, site) ==
    IF batch = <<>> THEN [queue |-> queue, results |-> results]
    ELSE With(scrape_url(Head(batch)[1], Fetch(site, Head(batch)[1])), LAMBDA item :
            IF Truthy(item.error)
            THEN ProcessBatch(Tail(batch), queue, visited_urls, results, max_depth, site)
            ELSE ProcessBatch(Tail(batch),
                             IF Head(batch)[2] < max_depth
                             THEN EnqueueLinks(queue, item.links, visited_urls, Head(batch)[2])
                             ELSE queue,
                             visited_urls, Append(results, item), max_depth, site))

\* the outer while loop
RECURSIVE CrawlLoop(_, _, _, _, _, _, _)
CrawlLoop(queue, visited_urls, results, calls, max_depth, max_pages, site) ==
    IF queue # <<>> /\ Len(results) < max_pages
    THEN With(FillBatch(queue, visited_urls, <<>>, Len(results), max_pages), LAMBDA b :
            IF b.batch = <<>>
            THEN [ret |-> results, calls |-> calls]
            ELSE With(ProcessBatch(b.batch, b.queue, b.visited_urls, results,
                                   max_depth, site), LAMBDA p :
                    CrawlLoop(p.queue, b.visited_urls, p.results,
                              calls \o [k \in DOMAIN b.batch |-> <<"httpx.get", b.batch[k][1]>>],
                              max_depth, max_pages, site)))
    ELSE [ret |-> results, calls |-> calls]

crawl(start_url, max_depth, max_pages, site) ==
    With(<<start_url, site>>, LAMBDA a :
        CrawlLoop(<< <<a[1], 0>> >>, {}, <<>>, <<>>, max_depth, max_pages, a[2]))

(***************************************************************************)
(* ScraperAgent.extract_relevant_content. outcome is the outcome of        *)
(* llm.chat; no call is made for a page with an error or without content.  *)
(***************************************************************************)
extract_relevant_content(scraped, query, outcome) ==
    IF Truthy(scraped.error) \/ scraped.content = <<>>
    THEN [ret |-> <<>>, calls |-> <<>>]
    ELSE [ret |-> IF outcome.raises THEN Take(scraped.content, 1000)
                  ELSE Strip(Get(outcome.msg, "content", <<>>)),
          calls |-> << <<"chat", "extract_relevant_content", scraped.url>> >>]

(***************************************************************************)
(* MaskWorkflow.scrape_node.                                               *)
(* web_context is modelled as the sequence of its excerpts: the text is    *)
(* their join with the divider, and is empty exactly when there is none.   *)
(***************************************************************************)
DocKeywords ==
    { <<"d","o","c","s">>,
      <<"d","o","c","u","m","e","n","t","a","t","i","o","n">>,
      <<"w","i","k","i">>,
      <<"m","a","n","u","a","l">>,
      <<"g","u","i","d","e">>,
      <<"g","i","t","h","u","b",".","i","o">> }

is_docs(url) == \E kw \in DocKeywords : Contains(Lower(url), kw)

\* the loop over unique_urls[:3]; i counts from 0 as enumerate does
RECURSIVE ScrapeUrls(_, _, _, _, _, _)
ScrapeUrls(urls, i, direct_scrape, site, scraped, calls) ==
    IF urls = <<>> THEN [ret |-> scraped, calls |-> calls]
    ELSE LET url == Head(urls)
             should_crawl == (i = 0 /\ is_docs(url)) \/ direct_scrape
         IN IF should_crawl /\ is_docs(url)
            THEN With(crawl(url, 2, 8, site), LAMBDA c :
                    ScrapeUrls(Tail(urls), i + 1, direct_scrape, site,
                               scraped \o c.ret,
                               calls \o << <<"crawl", url>> >> \o c.calls))
            ELSE With(scrape_url(url, Fetch(site, url)), LAMBDA result :
                    ScrapeUrls(Tail(urls), i + 1, direct_scrape, site,
                               IF ~Truthy(result.error) THEN Append(scraped, result)
                               ELSE scraped,
                               calls \o << <<"httpx.get", url>> >>))

\* scraped_content and the fetches made for it (state.get("direct_scrape") is
\* None, which tests false, when the key is absent)
ScrapeAll(s, site) ==
    With(<<Take(Unique(Get(s, "urls_to_scrape", <<>>), {}), 3), site>>, LAMBDA a :
        ScrapeUrls(a[1], 0, Get(s, "direct_scrape", FALSE), a[2], <<>>, <<>>))

NO_RELEVANT == <<"n","o"," ","r","e","l","e","v","a","n","t">>

\* the filter as it would be if it compared with the exact sentinel text
IsRelevantExact(relevant) ==
    relevant # <<>> /\ relevant # <<"N","o"," ">> \o SubSeq(NO_RELEVANT, 4, Len(NO_RELEVANT))
                                      \o <<" ","i","n","f","o","r","m","a","t","i","o","n"," ","f","o","u","n","d">>

\* the filter of the extraction loop
IsRelevant(relevant) == relevant # <<>> /\ ~Contains(Lower(relevant), NO_RELEVANT)

\* the extraction loop; extracts[k] is the outcome of the model call for scraped[k]
RECURSIVE ExtractFrom(_, _, _, _, _, _, _)
ExtractFrom(scraped, k, user_query, extracts, relevant_parts, sources, calls) ==
    IF k > Len(scraped)
    THEN [relevant_parts |-> relevant_parts, sources |-> sources, calls |-> calls]
    ELSE LET content == scraped[k]
         IN IF Truthy(content.error)
            THEN ExtractFrom(scraped, k + 1, user_query, extracts,
                             relevant_parts, sources, calls)
            ELSE With(extract_relevant_content(content, user_query, extracts[k]), LAMBDA e :
                    IF IsRelevant(e.ret)
                    THEN ExtractFrom(scraped, k + 1, user_query, extracts,
                                     Append(relevant_parts,
                                            [title |-> content.title, url |-> content.url,
                                             relevant |-> e.ret]),
                                     Append(sources,
                                            [title |-> content.title, url |-> content.url]),
                                     calls \o e.calls)
                    ELSE ExtractFrom(scraped, k + 1, user_query, extracts,
                                     relevant_parts, sources, calls \o e.calls))

\* the stage as it would be if its early return also reset the URL list
scrape_node_resets_urls(s, site, extracts) ==
    LET urls == Get(s, "urls_to_scrape", <<>>)
    IN IF urls = <<>>
       THEN [ret |-> Put(Put(Put(Put(s, "urls_to_scrape", <<>>), "scraped_content", <<>>),
                             "web_context", <<>>),
                         "sources", <<>>),
             calls |-> <<>>]
       ELSE With(ScrapeAll(s, site), LAMBDA f :
               With(ExtractFrom(f.ret, 1, s["user_query"], extracts, <<>>, <<>>, <<>>),
                    LAMBDA x :
                       [ret |-> Put(Put(Put(s, "scraped_content", f.ret),
                                        "web_context", x.relevant_parts),
                                    "sources", x.sources),
                        calls |-> f.calls \o x.calls]))

scrape_node(s, site, extracts) ==
    LET urls == Get(s, "urls_to_scrape", <<>>)
    IN IF urls = <<>>
       THEN [ret |-> Put(Put(Put(s, "scraped_content", <<>>), "web_context", <<>>),
                         "sources", <<>>),
             calls |-> <<>>]
       ELSE With(ScrapeAll(s, site), LAMBDA f :
               With(ExtractFrom(f.ret, 1, s["user_query"], extracts, <<>>, <<>>, <<>>),
                    LAMBDA x :
                       [ret |-> Put(Put(Put(s, "scraped_content", f.ret),
                                        "web_context", x.relevant_parts),
                                    "sources", x.sources),
                        calls |-> f.calls \o x.calls]))

(***************************************************************************)
(* MaskWorkflow.retrieve_node. rag_context and graph_context are what the  *)
(* two recall lookups return.                                              *)
(***************************************************************************)
retrieve_node(s, rag_context, graph_context) ==
    LET full_context ==
            (IF rag_context # <<>> THEN rag_context \o <<"\n", "\n">> ELSE <<>>)
                \o (IF graph_context # <<>> THEN graph_context \o <<"\n", "\n">> ELSE <<>>)
    IN [ret |-> Put(s, "memory_context", Strip(full_context)),
        calls |-> << <<"get_session", s["session_id"]>>,
                     <<"search_relevant_history", s["user_query"]>>,
                     <<"retrieve_context", s["user_query"]>> >>]

(***************************************************************************)
(* MaskWorkflow.coordinator_node. The system prompt is modelled as the     *)
(* sequence of the blocks appended to it. tools is list_tools().           *)
(***************************************************************************)
\* the normalisation as it would be if an object kept its type as its role
SanitizeKeepingType(msg) ==
    CASE msg.shape = "obj" -> [role |-> msg.type, content |-> msg.content]
      [] msg.shape = "dict" ->
            [role |-> Get(msg.d, "role", "user"), content |-> Get(msg.d, "content", <<>>)]
      [] OTHER -> [role |-> "user", content |-> msg.str]

\* the normalisation of one entry of messages
Sanitize(msg) ==
    CASE msg.shape = "obj" ->
            [role |-> CASE msg.type = "human" -> "user"
                        [] msg.type = "ai" -> "assistant"
                        [] msg.type = "system" -> "system"
                        [] OTHER -> "user",
             content |-> msg.content]
      [] msg.shape = "dict" ->
            [role |-> Get(msg.d, "role", "user"), content |-> Get(msg.d, "content", <<>>)]
      [] OTHER -> [role |-> "user", content |-> msg.str]

\* the prompt as it would be if each contextual block had a test of its own
SystemPromptIndependentBlocks(s, tools) ==
    LET web_context == Get(s, "web_context", <<>>)
        memory_context == Get(s, "memory_context", <<>>)
    IN << [block |-> "base"] >>
        \o (IF web_context # <<>> THEN << [block |-> "web", body |-> web_context] >> ELSE <<>>)
        \o (IF Get(s, "search_performed", FALSE) THEN << [block |-> "found_nothing"] >> ELSE <<>>)
        \o (IF Get(s, "direct_scrape", FALSE) THEN << [block |-> "could_not_read"] >> ELSE <<>>)
        \o (IF memory_context # <<>> THEN << [block |-> "memory", body |-> memory_context] >>
            ELSE <<>>)
        \o (IF tools # <<>> THEN << [block |-> "tools", body |-> tools] >> ELSE <<>>)
        \o << [block |-> "tool_rules"] >>

\* the prompt as it would be without the branch for a search that found nothing
SystemPromptSilentOnNothing(s, tools) ==
    LET web_context == Get(s, "web_context", <<>>)
        memory_context == Get(s, "memory_context", <<>>)
    IN << [block |-> "base"] >>
        \o (IF web_context # <<>> THEN << [block |-> "web", body |-> web_context] >>
            ELSE IF Get(s, "direct_scrape", FALSE) THEN << [block |-> "could_not_read"] >>
            ELSE <<>>)
        \o (IF memory_context # <<>> THEN << [block |-> "memory", body |-> memory_context] >>
            ELSE <<>>)
        \o (IF tools # <<>> THEN << [block |-> "tools", body |-> tools] >> ELSE <<>>)
        \o << [block |-> "tool_rules"] >>

SystemPrompt(s, tools) ==
    LET web_context == Get(s, "web_context", <<>>)
        memory_context == Get(s, "memory_context", <<>>)
    IN << [block |-> "base"] >>
        \o (IF web_context # <<>> THEN << [block |-> "web", body |-> web_context] >>
            ELSE IF Get(s, "search_performed", FALSE) THEN << [block |-> "found_nothing"] >>
            ELSE IF Get(s, "direct_scrape", FALSE) /\ web_context = <<>>
                 THEN << [block |-> "could_not_read"] >>
            ELSE <<>>)
        \o (IF memory_context # <<>> THEN << [block |-> "memory", body |-> memory_context] >>
            ELSE <<>>)
        \o (IF tools # <<>> THEN << [block |-> "tools", body |-> tools] >> ELSE <<>>)
        \o << [block |-> "tool_rules"] >>

coordinator_node(s, tools) ==
    LET input_messages == Get(s, "messages", <<>>)
        messages == << [role |-> "system", content |-> SystemPrompt(s, tools)] >>
                        \o [k \in DOMAIN input_messages |-> Sanitize(input_messages[k])]
    IN [ret |-> Put(s, "final_messages", messages),
        calls |-> << <<"list_tools">> >>]

(***************************************************************************)
(* MaskWorkflow.should_search: the conditional edge after router.          *)
(***************************************************************************)
should_search(s) ==
    IF Get(s, "direct_scrape", FALSE) THEN "scrape"
    ELSE IF Get(s, "needs_search", FALSE) THEN "search"
    ELSE "coordinator"

(***************************************************************************)
(* The compiled graph: StateGraph(AgentState). The graph keeps one channel *)
(* per key of the AgentState schema. A stage is handed a dict built from   *)
(* the channels; of the dict it returns, the keys of the schema are        *)
(* written back (messages through its add_messages reducer) and every      *)
(* other key is discarded. The conditional edge reads the channels.        *)
(***************************************************************************)
AgentStateKeys ==
    { "messages", "session_id", "user_query",
      "needs_search", "search_performed", "search_queries", "search_results",
      "urls_to_scrape", "scraped_content",
      "web_context", "sources",
      "final_response", "response_chunks" }

\* add_messages turns a {role, content} record into a message object with an id
AsMessage(msg, id) ==
    IF msg.shape = "dict"
    THEN [shape |-> "obj",
          type |-> CASE msg.d.role = "user" -> "human"
                     [] msg.d.role = "assistant" -> "ai"
                     [] msg.d.role = "system" -> "system",
          content |-> msg.d.content,
          id |-> id]
    ELSE msg

\* add_messages(left, right): an entry of right replaces the entry of left with
\* its id, or is appended
RECURSIVE add_messages(_, _)
add_messages(left, right) ==
    IF right = <<>> THEN left
    ELSE LET m == AsMessage(Head(right), Len(left) + 1)
         IN add_messages(IF \E k \in DOMAIN left : left[k].id = m.id
                         THEN [k \in DOMAIN left |-> IF left[k].id = m.id THEN m ELSE left[k]]
                         ELSE Append(left, m),
                         Tail(right))

\* the channels after a stage (or the caller, at the start) wrote update
WriteChannels(channels, update) ==
    LET kept == Restrict(update, AgentStateKeys)
    IN [k \in DOMAIN channels \cup DOMAIN kept |->
            IF k \notin DOMAIN kept THEN channels[k]
            ELSE IF k = "messages"
                 THEN add_messages(Get(channels, "messages", <<>>), kept[k])
            ELSE kept[k]]

(***************************************************************************)
(* Stage bookkeeping shared by every specification                        *)
(***************************************************************************)
\* AgentState(messages=..., session_id=..., user_query=...) of run / stream
InitialState(session_id, user_query, messages) ==
    [messages |-> messages, session_id |-> session_id, user_query |-> user_query]

\* the record a stage leaves in the trace
Ran(node, in, r, ext) ==
    [node |-> node, in |-> in, out |-> r.ret, calls |-> r.calls, ext |-> ext]

Nodes == [i \in DOMAIN trace |-> trace[i].node]

HasRun(node) == \E i \in DOMAIN trace : trace[i].node = node

(***************************************************************************)
(* SpecRouter: router_node called on a fresh state, as the unit tests do,  *)
(* for every query built from the pieces below.                            *)
(***************************************************************************)
MaxPieces == 3

QueryPieces ==
    { HTTP, HTTPS, HTTP \o <<"a">>, <<"a">>, <<" ">>, <<",">>, <<"%">>, <<"4","f">> }

RouterQueries == {Join(ps) : ps \in SeqsUpTo(QueryPieces, MaxPieces)}

Reply(content) == [raises |-> FALSE, msg |-> [content |-> content]]

ReplyRaises == [raises |-> TRUE, msg |-> EmptyDict]

ReplyNoContent == [raises |-> FALSE, msg |-> EmptyDict]

FewClassifierOutcomes ==
    { ReplyRaises, ReplyNoContent, Reply(YES), Reply(<<"N","O">>) }

\* a conversation entry as the caller passes it: a plain {role, content} record
DictMsg(role, content) == [shape |-> "dict", d |-> [role |-> role, content |-> content]]

Msgs1 == << DictMsg("user", <<"a">>) >>

RouterInit ==
    /\ state \in {InitialState("s1", q, Msgs1) : q \in RouterQueries}
    /\ pc = "router"
    /\ trace = <<>>

RouterStep ==
    /\ pc = "router"
    /\ \E cls \in FewClassifierOutcomes :
          LET r == router_node(state, cls)
          IN /\ state' = r.ret
             /\ trace' = Append(trace, Ran("router", state, r, cls))
    /\ pc' = "done"

SpecRouter == RouterInit /\ [][RouterStep]_vars

(***************************************************************************)
(* SpecClassify: router_node on short queries, for every classifier reply  *)
(* over a small alphabet.                                                  *)
(***************************************************************************)
MaxReplyLen == 4

ReplyChars == {"Y", "E", "S", "e", "N", " "}

ShortQueries == {Join(ps) : ps \in SeqsUpTo(QueryPieces, 1)}

ClassifierOutcomes ==
    {ReplyRaises, ReplyNoContent} \cup {Reply(c) : c \in SeqsUpTo(ReplyChars, MaxReplyLen)}

ClassifyInit ==
    /\ state \in {InitialState("s1", q, Msgs1) : q \in ShortQueries}
    /\ pc = "router"
    /\ trace = <<>>

ClassifyStep ==
    /\ pc = "router"
    /\ \E cls \in ClassifierOutcomes :
          LET r == router_node(state, cls)
          IN /\ state' = r.ret
             /\ trace' = Append(trace, Ran("router", state, r, cls))
    /\ pc' = "done"

SpecClassify == ClassifyInit /\ [][ClassifyStep]_vars

(***************************************************************************)
(* C1: whenever the URL pattern finds a URL in the query, router_node      *)
(* returns its input with direct_scrape = TRUE, needs_search = FALSE and   *)
(* urls_to_scrape = the matches in order of appearance, and makes no       *)
(* classifier call, whatever the model would have done (raise, YES, NO).   *)
(***************************************************************************)
\* the matches are the stretches of the query, left to right, that start with a
\* scheme and run to the next whitespace
MatchesInOrder(q, urls) ==
    /\ Len(urls) = Len(UrlSpans(q))
    /\ \A k \in DOMAIN urls :
          LET a == UrlSpans(q)[k][1]
              b == UrlSpans(q)[k][2]
          IN /\ urls[k] = SubSeq(q, a, b)
             /\ HasPrefixAt(urls[k], 1, HTTP) \/ HasPrefixAt(urls[k], 1, HTTPS)
             /\ \A j \in DOMAIN urls[k] : ~IsSpace(urls[k][j])
             /\ b = Len(q) \/ IsSpace(q[b + 1])
             /\ k > 1 => UrlSpans(q)[k - 1][2] < a

C1_DirectUrlRouting ==
    \A i \in DOMAIN trace :
        (trace[i].node = "router" /\ FindUrls(trace[i].in["user_query"]) # <<>>) =>
            /\ trace[i].out["direct_scrape"] = TRUE
            /\ trace[i].out["needs_search"] = FALSE
            /\ MatchesInOrder(trace[i].in["user_query"], trace[i].out["urls_to_scrape"])
            /\ trace[i].calls = <<>>
            /\ DOMAIN trace[i].out =
                  DOMAIN trace[i].in \cup {"direct_scrape", "needs_search", "urls_to_scrape"}
            /\ \A k \in DOMAIN trace[i].in : trace[i].out[k] = trace[i].in[k]

\* a query holding two URLs was routed while the model was down
C1_Witness ==
    /\ pc = "done"
    /\ Len(trace) = 1
    /\ trace[1].ext.raises
    /\ "urls_to_scrape" \in DOMAIN trace[1].out
    /\ Len(trace[1].out["urls_to_scrape"]) = 2
    /\ trace[1].out["direct_scrape"] = TRUE

(***************************************************************************)
(* C2: for a query without a URL, router_node sets direct_scrape = FALSE   *)
(* and needs_search = TRUE exactly when the call returned a reply whose    *)
(* text holds YES in any letter case; a raise, a reply without content or  *)
(* any other text gives needs_search = FALSE.                              *)
(***************************************************************************)
\* YES in any letter case occurs in the text
HoldsYes(text) ==
    \E i \in DOMAIN text :
        /\ i + 2 <= Len(text)
        /\ text[i] \in {"Y", "y"}
        /\ text[i + 1] \in {"E", "e"}
        /\ text[i + 2] \in {"S", "s"}

C2_ClassifierDecides ==
    \A i \in DOMAIN trace :
        (trace[i].node = "router" /\ FindUrls(trace[i].in["user_query"]) = <<>>) =>
            /\ trace[i].out["direct_scrape"] = FALSE
            /\ trace[i].out["needs_search"] =
                  (/\ ~trace[i].ext.raises
                   /\ "content" \in DOMAIN trace[i].ext.msg
                   /\ HoldsYes(trace[i].ext.msg["content"]))

\* a padded, mixed-case reply switched the search on
C2_Witness ==
    /\ pc = "done"
    /\ Len(trace) = 1
    /\ ~trace[1].ext.raises
    /\ Get(trace[1].ext.msg, "content", <<>>) = <<" ", "Y", "e", "S">>
    /\ trace[1].out["needs_search"] = TRUE

(***************************************************************************)
(* SpecExpand: extract_search_queries for every reply of up to             *)
(* MaxReplyLines lines drawn from ExpandLines.                             *)
(***************************************************************************)
MaxReplyLines == 4

ExpandLines ==
    { <<"1", ".", " ", "a">>,                  \* numbered
      <<"-", " ", "b">>,                       \* bulleted
      <<"x", " ", "y">>,                       \* prose, no marker
      <<"2", ".">>,                            \* a marker and nothing else
      <<>>,                                    \* blank
      <<"*", "*", "3", ".", " ", "c", "*", "*">> }  \* bold

ExpandReplies == {JoinWith(ls, <<"\n">>) : ls \in SeqsUpTo(ExpandLines, MaxReplyLines)}

ExpandOutcomes == {ReplyRaises, ReplyNoContent} \cup {Reply(c) : c \in ExpandReplies}

UserQueries == { <<"q">>, <<"1", ".", " ", "q">> }

ExpandInit ==
    /\ state \in {InitialState("s1", q, Msgs1) : q \in UserQueries}
    /\ pc = "extract_search_queries"
    /\ trace = <<>>

ExpandStep ==
    /\ pc = "extract_search_queries"
    /\ \E exp \in ExpandOutcomes :
          trace' = Append(trace,
                          [node |-> "extract_search_queries",
                           in |-> state["user_query"],
                           out |-> extract_search_queries(state["user_query"], exp),
                           calls |-> << <<"chat", "extract_search_queries">> >>,
                           ext |-> exp])
    /\ pc' = "done"
    /\ UNCHANGED state

SpecExpand == ExpandInit /\ [][ExpandStep]_vars

(***************************************************************************)
(* C7: extract_search_queries returns between 1 and 3 queries, and exactly *)
(* the original query alone when the call raises or no reply line is a     *)
(* numbered or bulleted item.                                              *)
(***************************************************************************)
\* the line, stripped of whitespace and decoration, starts with a digit or a dash
IsItemLine(line) ==
    LET clean == RemoveChar(RemoveChar(Strip(line), "*"), "\"")
    IN clean # <<>> /\ (IsDigit(clean[1]) \/ clean[1] = "-")

NoItemLine(exp) ==
    \/ exp.raises
    \/ LET lines == Split(Get(exp.msg, "content", <<>>), "\n")
       IN \A k \in DOMAIN lines : ~IsItemLine(lines[k])

C7_OneToThreeQueries ==
    \A i \in DOMAIN trace :
        trace[i].node = "extract_search_queries" =>
            /\ Len(trace[i].out) >= 1
            /\ Len(trace[i].out) <= 3
            /\ NoItemLine(trace[i].ext) => trace[i].out = <<trace[i].in>>

(***************************************************************************)
(* SpecSearch: search_node on the state the router leaves, for every       *)
(* outcome of the searches of the expanded queries.                        *)
(***************************************************************************)
MaxPerQuery == 2

U1 == HTTP \o <<"a", "/", "1">>

U2 == HTTP \o <<"a", "/", "2">>

U3 == HTTP \o <<"b", "/", "3">>

U4 == HTTP \o <<"b", "/", "4">>

RawResults ==
    { [title |-> "T1", href |-> U1, body |-> "B"],
      [title |-> "T1x", href |-> U1, body |-> "B"],   \* the same page under another title
      [title |-> "T2", href |-> U2, body |-> "B"],
      [title |-> "T3", link |-> U3, snippet |-> "B"],
      [title |-> "T4", href |-> U4, body |-> "B"],
      [title |-> "T4u", href |-> Upper(U4), body |-> "B"] }  \* differs in letter case only

SearchOutcomes ==
    {[raises |-> TRUE, results |-> <<>>]}
        \cup {[raises |-> FALSE, results |-> rs] : rs \in SeqsUpTo(RawResults, MaxPerQuery)}

SearchExpandOutcomes ==
    { ReplyRaises,
      Reply(<<"1", ".", " ", "a", "\n", "2", ".", " ", "b">>) }

RoutedToSearch(q) ==
    Put(Put(InitialState("s1", q, Msgs1), "needs_search", TRUE), "direct_scrape", FALSE)

SearchInit ==
    /\ state \in {RoutedToSearch(q) : q \in UserQueries}
    /\ pc = "search"
    /\ trace = <<>>

SearchStep ==
    /\ pc = "search"
    /\ \E exp \in SearchExpandOutcomes :
          LET queries == extract_search_queries(state["user_query"], exp)
          IN \E outcomes \in [DOMAIN queries -> SearchOutcomes] :
                LET r == search_node(state, exp, outcomes)
                IN /\ state' = r.ret
                   /\ trace' = Append(trace,
                                      Ran("search", state, r,
                                          [expand |-> exp, searches |-> outcomes]))
    /\ pc' = "done"

SpecSearch == SearchInit /\ [][SearchStep]_vars

(***************************************************************************)
(* C5: search_multiple runs the queries in list order; its result holds    *)
(* every returned URL exactly once, and is the concatenation of the        *)
(* per-query results with every entry dropped whose URL (exact match)      *)
(* occurred earlier in that concatenation.                                 *)
(***************************************************************************)
\* what the searches of one stage returned, query after query
Returned(ext, n) ==
    Join([k \in 1..n |->
            IF ext.searches[k].raises THEN <<>>
            ELSE [j \in DOMAIN ext.searches[k].results |->
                    LET raw == ext.searches[k].results[j]
                    IN [title |-> raw.title,
                        url |-> IF "href" \in DOMAIN raw THEN raw.href ELSE raw.link]]])

FirstSeen(all) == {i \in DOMAIN all : \A j \in 1..(i - 1) : all[j].url # all[i].url}

\* the k-th smallest element of the set of numbers F
Kth(F, k) == CHOOSE i \in F : Cardinality({j \in F : j <= i}) = k

C5_FirstSeenDedup ==
    \A i \in DOMAIN trace :
        trace[i].node = "search" =>
            LET queries == trace[i].out["search_queries"]
                results == trace[i].out["search_results"]
                all == Returned(trace[i].ext, Len(queries))
                F == FirstSeen(all)
            IN /\ SubSeq(trace[i].calls, 2, Len(trace[i].calls))
                    = [k \in DOMAIN queries |-> <<"ddgs.text", queries[k]>>]
               /\ Len(results) = Cardinality(F)
               /\ \A k \in DOMAIN results :
                     /\ results[k].url = all[Kth(F, k)].url
                     /\ results[k].title = all[Kth(F, k)].title
               /\ \A a \in DOMAIN all :
                     Cardinality({k \in DOMAIN results : results[k].url = all[a].url}) = 1

\* two queries overlapped, within a query and across the two
C5_Witness ==
    /\ pc = "done"
    /\ Len(trace) = 1
    /\ trace[1].node = "search"
    /\ Len(trace[1].out["search_queries"]) = 2
    /\ LET all == Returned(trace[1].ext, 2)
       IN /\ Len(all) = 4
          /\ all[1].url = all[2].url
          /\ all[3].url = all[1].url
          /\ all[4].url # all[1].url
          /\ Len(trace[1].out["search_results"]) = 2

(***************************************************************************)
(* C6: after the search stage urls_to_scrape is the URLs of the first      *)
(* min(3, n) of the n search_results, in order; so at most 3, no repeats.  *)
(***************************************************************************)
Min(a, b) == IF a < b THEN a ELSE b

C6_TopThreeUrls ==
    \A i \in DOMAIN trace :
        trace[i].node = "search" =>
            LET results == trace[i].out["search_results"]
                urls == trace[i].out["urls_to_scrape"]
            IN /\ Len(urls) = Min(3, Len(results))
               /\ \A k \in DOMAIN urls : urls[k] = results[k].url
               /\ Len(urls) <= 3
               /\ \A a, b \in DOMAIN urls : a # b => urls[a] # urls[b]

\* four distinct results were found and the fourth was cut
C6_Witness ==
    /\ pc = "done"
    /\ Len(trace) = 1
    /\ trace[1].node = "search"
    /\ Len(trace[1].out["search_results"]) = 4
    /\ Len(trace[1].out["urls_to_scrape"]) = 3

(***************************************************************************)
(* SpecScrape: scrape_node on the states search or router can leave,       *)
(* against small sites, for every outcome of the relevance extraction.     *)
(***************************************************************************)
MaxUrls == 2

D1 == HTTP \o <<"a", "/", "d", "o", "c", "s">>

D2 == HTTP \o <<"a", "/", "d", "o", "c", "s", "/", "2">>

P1 == HTTP \o <<"b", "/", "1">>

P2 == HTTP \o <<"b", "/", "2">>

SiteUrls == {D1, D2, P1, P2}

\* a page whose links are iterated in the order the document lists them
OkPage(title, content, hrefs) ==
    [kind |-> "ok", title |-> title, content |-> content, hrefs |-> hrefs, order |-> 0]

SENTINEL == <<"N","o"," ","r","e","l","e","v","a","n","t"," ","i","n","f","o","r","m","a","t","i","o","n"," ","f","o","u","n","d">>

\* every page answers; the documentation pages link to each other
SiteUp ==
    [u \in SiteUrls |->
        CASE u = D1 -> OkPage("Docs", <<"d", "1">>, <<D2>>)
          [] u = D2 -> OkPage("Docs 2", <<"d", "2">>, <<D1>>)
          [] u = P1 -> OkPage("Page 1", <<"p", "1">>, <<>>)
          [] u = P2 -> OkPage("Page 2", SENTINEL, <<>>)]

\* some fetches fail, one page has no text
SiteFlaky ==
    [u \in SiteUrls |->
        CASE u = D1 -> OkPage("Docs", <<>>, <<D2, D2>>)
          [] u = D2 -> [kind |-> "status"]
          [] u = P1 -> [kind |-> "timeout"]
          [] u = P2 -> OkPage("Page 2", <<"p", "2">>, <<>>)]

Sites == {SiteUp, SiteFlaky}

ExtractOutcomes ==
    { ReplyRaises,
      ReplyNoContent,
      Reply(<<"o", "k">>),
      Reply(<<" ">>),
      Reply(SENTINEL),
      Reply(Upper(SENTINEL) \o <<".">>),
      Reply(<<"H", "a", "s", " ">> \o NO_RELEVANT \o <<" ", "x">>) }

ScrapeInputs ==
    LET base == InitialState("s1", <<"q">>, Msgs1)
        searched == Put(Put(Put(base, "needs_search", TRUE), "direct_scrape", FALSE),
                        "search_performed", TRUE)
        direct == Put(Put(base, "needs_search", FALSE), "direct_scrape", TRUE)
        lists == SeqsUpTo({D1, P1, P2}, MaxUrls) \cup {<<D1, D2>>}
    IN {base}
        \cup {Put(searched, "urls_to_scrape", us) : us \in lists}
        \cup {Put(direct, "urls_to_scrape", us) : us \in lists \ {<<>>}}
        \cup {Put(base, "urls_to_scrape", us) : us \in lists}

ScrapeInit ==
    /\ state \in ScrapeInputs
    /\ pc = "scrape"
    /\ trace = <<>>

ScrapeStep ==
    /\ pc = "scrape"
    /\ \E site \in Sites :
          \E extracts \in [DOMAIN ScrapeAll(state, site).ret -> ExtractOutcomes] :
             LET r == scrape_node(state, site, extracts)
             IN /\ state' = r.ret
                /\ trace' = Append(trace,
                                   Ran("scrape", state, r,
                                       [site |-> site, extracts |-> extracts]))
    /\ pc' = "done"

SpecScrape == ScrapeInit /\ [][ScrapeStep]_vars

(***************************************************************************)
(* C9: started without URLs (urls_to_scrape empty or absent), scrape_node  *)
(* sets scraped_content = [], web_context = "" and sources = [], changes   *)
(* no other field and makes no fetch, crawl or extraction call.            *)
(***************************************************************************)
ScrapeOutputs == {"scraped_content", "web_context", "sources"}

C9_NoUrlsNoOp ==
    \A i \in DOMAIN trace :
        (trace[i].node = "scrape" /\ Get(trace[i].in, "urls_to_scrape", <<>>) = <<>>) =>
            /\ trace[i].calls = <<>>
            /\ DOMAIN trace[i].out = DOMAIN trace[i].in \cup ScrapeOutputs
            /\ \A k \in ScrapeOutputs : trace[i].out[k] = <<>>
            /\ \A k \in DOMAIN trace[i].in \ ScrapeOutputs : trace[i].out[k] = trace[i].in[k]

\* the stage ran on a state that has no urls_to_scrape key at all
C9_Witness ==
    /\ pc = "done"
    /\ Len(trace) = 1
    /\ trace[1].node = "scrape"
    /\ "urls_to_scrape" \notin DOMAIN trace[1].in
    /\ state["sources"] = <<>>

\* ... and on one whose list is empty after a search that found nothing
C9_WitnessEmpty ==
    /\ pc = "done"
    /\ Len(trace) = 1
    /\ trace[1].node = "scrape"
    /\ "urls_to_scrape" \in DOMAIN trace[1].in
    /\ trace[1].in["urls_to_scrape"] = <<>>
    /\ Get(trace[1].in, "search_performed", FALSE)
    /\ state["web_context"] = <<>>

(***************************************************************************)
(* C10: which scraped pages reach web_context and sources.                 *)
(***************************************************************************)
\* the text extract_relevant_content returned for the k-th scraped page
Extraction(step, k) ==
    extract_relevant_content(step.out["scraped_content"][k], step.in["user_query"],
                             step.ext.extracts[k]).ret

\* the pages a stage let through, per the rule Include(text)
Included(step, Include(_)) ==
    {k \in DOMAIN step.out["scraped_content"] : Include(Extraction(step, k))}

\* sources and web_context hold exactly the pages of F, in the order scraped
ContributesExactly(step, F) ==
    LET scraped == step.out["scraped_content"]
        sources == step.out["sources"]
        parts == step.out["web_context"]
    IN /\ Len(sources) = Cardinality(F)
       /\ Len(parts) = Cardinality(F)
       /\ \A k \in 1..Cardinality(F) :
             /\ sources[k] = [title |-> scraped[Kth(F, k)].title, url |-> scraped[Kth(F, k)].url]
             /\ parts[k].url = sources[k].url
             /\ parts[k].title = sources[k].title
             /\ parts[k].relevant = Extraction(step, Kth(F, k))
       /\ (parts = <<>>) <=> (F = {})

\* the claim's rule: the extraction does not contain the sentinel phrase
LacksSentinel(text) == ~Contains(Lower(text), Lower(SENTINEL))

\* the code's rule: the extraction is not empty and does not contain "no relevant"
NonEmptyLacksNoRelevant(text) == text # <<>> /\ ~Contains(Lower(text), Lower(<<"N","O"," ","R","E","L","E","V","A","N","T">>))

ScrapedSome(step) == step.node = "scrape" /\ Get(step.in, "urls_to_scrape", <<>>) # <<>>

\* C10 as claimed: a page contributes iff its extraction lacks the sentinel
C10_SentinelFilter ==
    \A i \in DOMAIN trace :
        ScrapedSome(trace[i]) => ContributesExactly(trace[i], Included(trace[i], LacksSentinel))

\* C10 as amended: a page contributes iff its extraction is non-empty and does
\* not contain "no relevant" in any letter case (so never when it contains the
\* sentinel); sources has one {title, url} per contributing page in the order of
\* the excerpts, and web_context is empty exactly when no page contributes
C10_NoRelevantFilter ==
    \A i \in DOMAIN trace :
        ScrapedSome(trace[i]) =>
            ContributesExactly(trace[i], Included(trace[i], NonEmptyLacksNoRelevant))

\* three pages were scraped: one judged relevant, one answered with the sentinel
\* in capitals, one with an empty extraction
C10_Witness ==
    /\ pc = "done"
    /\ Len(trace) = 1
    /\ ScrapedSome(trace[1])
    /\ Len(state["scraped_content"]) = 3
    /\ Extraction(trace[1], 1) = Upper(SENTINEL) \o <<".">>
    /\ Extraction(trace[1], 2) = <<"o", "k">>
    /\ Extraction(trace[1], 3) = <<>>
    /\ Len(state["sources"]) = 1
    /\ state["sources"][1].url = state["scraped_content"][2].url

(***************************************************************************)
(* SpecCrawl: ScraperAgent.crawl, one action per pass of its outer loop    *)
(* (the batch is popped, fetched concurrently and processed before the     *)
(* next pass), over every site of a family with cycles, chains, fan-out,   *)
(* failing pages and links that leave the host.                            *)
(***************************************************************************)
MaxDepth == 2

MaxPages == 4

R0 == HTTP \o <<"a", "/">>

R1 == HTTP \o <<"a", "/", "1">>

R2 == HTTP \o <<"a", "/", "2">>

R3 == HTTP \o <<"a", "/", "3">>

R4 == HTTP \o <<"a", "/", "4">>

\* a page as the fetch of an HTML document yields it
HtmlPage(title, content, hrefs, order) ==
    [kind |-> "ok", title |-> title, content |-> content, hrefs |-> hrefs, order |-> order]

\* href values: to /1 and, relative, to 2
FanHrefs == << <<"/", "1">>, <<"2">> >>

\* to /3, to the page itself, and off the host (plainly, and with the host in
\* the place of the user name)
OutHrefs == << <<"/", "3">>, <<"#", "t", "o", "p">>, HTTP \o <<"b", "/", "x">>,
               HTTP \o <<"a", "@", "b", "/">> >>

\* back to the root, off the host without a scheme, and to /2 twice
BackHrefs == << <<"/">>, <<"/", "/", "b", "/", "x">>, <<"/", "2", "#", "s">>, <<"/", "2">> >>

Fan(order) == HtmlPage("Fan", <<"f">>, FanHrefs, order)

Out == HtmlPage("Out", <<"o">>, OutHrefs, 0)

Back == HtmlPage("Back", <<"b">>, BackHrefs, 0)

NotFound == [kind |-> "status"]

\* the fetch raises an exception whose text is empty, as httpx.ReadError() is
RaisesBlank == [kind |-> "raise", message |-> ""]

\* what each URL of the family can serve
PageChoices ==
    [u \in {R0, R1, R2, R3} |->
        CASE u = R0 -> {Fan(0), Fan(1), Out, NotFound}
          [] u = R1 -> {Out, Back, RaisesBlank}
          [] u = R2 -> {Out, Fan(0), NotFound}
          [] u = R3 -> {Back, Fan(0), NotFound}]

\* page1 -> page2 -> page3 -> page4 -> page5
SiteChain ==
    [u \in {R0, R1, R2, R3, R4} |->
        CASE u = R0 -> HtmlPage("1", <<"1">>, << <<"/", "1">> >>, 0)
          [] u = R1 -> HtmlPage("2", <<"2">>, << <<"2">> >>, 0)
          [] u = R2 -> HtmlPage("3", <<"3">>, << R3 >>, 0)
          [] u = R3 -> HtmlPage("4", <<"4">>, << <<"/", "4">> >>, 0)
          [] u = R4 -> HtmlPage("5", <<"5">>, <<>>, 0)]

CrawlSites ==
    {site \in [{R0, R1, R2, R3} -> UNION Range(PageChoices)] :
        \A u \in DOMAIN site : site[u] \in PageChoices[u]}
        \cup {SiteChain}

CrawlInit ==
    /\ state \in {[start_url |-> R0, max_depth |-> d, max_pages |-> n, site |-> site,
                   queue |-> << <<R0, 0>> >>, visited_urls |-> {}, results |-> <<>>] :
                     d \in 0..MaxDepth, n \in 0..MaxPages, site \in CrawlSites}
    /\ pc = "crawl"
    /\ trace = <<>>

\* while queue and len(results) < max_pages
CrawlContinues == state.queue # <<>> /\ Len(state.results) < state.max_pages

NextBatch ==
    FillBatch(state.queue, state.visited_urls, <<>>, Len(state.results), state.max_pages)

\* the results of the tasks as they would come in the order of completion
as_completed(tasks, completion) == [k \in DOMAIN completion |-> tasks[completion[k]]]

\* asyncio.gather(*tasks): each result is stored, when its task completes, in
\* the slot of that task; completion lists the tasks in the order they end
RECURSIVE Collect(_, _, _)
Collect(tasks, completion, slots) ==
    IF completion = <<>> THEN slots
    ELSE Collect(tasks, Tail(completion),
                 [slots EXCEPT ![Head(completion)] = tasks[Head(completion)]])

RECURSIVE Ascending(_)
Ascending(n) == IF n = 0 THEN <<>> ELSE Append(Ascending(n - 1), n)

RECURSIVE Descending(_)
Descending(n) == IF n = 0 THEN <<>> ELSE <<n>> \o Descending(n - 1)

RECURSIVE EmptySlots(_)
EmptySlots(n) == IF n = 0 THEN <<>> ELSE Append(EmptySlots(n - 1), <<>>)

gather(tasks, completion) == Collect(tasks, completion, EmptySlots(Len(tasks)))

\* the fetches of a batch end in the order they began, or in the opposite one
CompletionOrders(n) == { Ascending(n), Descending(n) }

\* one pass of the loop: fill the batch, fetch it, process the items
CrawlBatch ==
    /\ pc = "crawl"
    /\ CrawlContinues
    /\ NextBatch.batch # <<>>
    /\ \E completion \in CompletionOrders(Len(NextBatch.batch)) :
          LET b == NextBatch
              p == ProcessBatch(gather(b.batch, completion), b.queue, b.visited_urls,
                                state.results, state.max_depth, state.site)
              after == [state EXCEPT !.queue = p.queue, !.visited_urls = b.visited_urls,
                                     !.results = p.results]
          IN /\ state' = after
             /\ trace' = Append(trace,
                                Ran("batch", state,
                                    [ret |-> after,
                                     calls |-> [k \in DOMAIN b.batch |->
                                                   <<"httpx.get", b.batch[k][1]>>]],
                                    [batch |-> b.batch, completion |-> completion]))
    /\ pc' = "crawl"

\* if not batch: break
CrawlBreak ==
    /\ pc = "crawl"
    /\ CrawlContinues
    /\ NextBatch.batch = <<>>
    /\ state' = [state EXCEPT !.queue = NextBatch.queue]
    /\ pc' = "done"
    /\ UNCHANGED trace

\* the loop condition fails: return results
CrawlReturn ==
    /\ pc = "crawl"
    /\ ~CrawlContinues
    /\ pc' = "done"
    /\ UNCHANGED <<state, trace>>

CrawlNext == CrawlBatch \/ CrawlBreak \/ CrawlReturn

\* a pass waits for nothing but its fetches, and each of them ends within the
\* client's timeout, so a pass that can run does run
SpecCrawl == CrawlInit /\ [][CrawlNext]_vars /\ WF_vars(CrawlNext)

\* the fetches of the crawl so far, in order
RECURSIVE CallsUpTo(_)
CallsUpTo(n) == IF n = 0 THEN <<>> ELSE CallsUpTo(n - 1) \o trace[n].calls

Fetches == CallsUpTo(Len(trace))

\* the <<url, depth>> entries fetched so far, in order
RECURSIVE BatchesUpTo(_)
BatchesUpTo(n) == IF n = 0 THEN <<>> ELSE BatchesUpTo(n - 1) \o trace[n].ext.batch

FetchedEntries == BatchesUpTo(Len(trace))

(***************************************************************************)
(* C11: on every finite site, cyclic ones included, and for every          *)
(* max_depth and max_pages, crawl terminates, returns at most max_pages    *)
(* results and fetches each URL at most once: a URL already marked visited *)
(* is not fetched again, however often it is enqueued.                     *)
(***************************************************************************)
CrawlBounded ==
    /\ Len(state.results) <= state.max_pages
    /\ \A i, j \in DOMAIN Fetches : Fetches[i] = Fetches[j] => i = j
    /\ \A i \in DOMAIN trace :
          \A k \in DOMAIN trace[i].ext.batch :
             trace[i].ext.batch[k][1] \notin trace[i].in.visited_urls
    /\ pc = "done" =>
          LET c == crawl(state.start_url, state.max_depth, state.max_pages, state.site)
          IN c.ret = state.results /\ c.calls = Fetches

C11_CrawlTerminates == []CrawlBounded /\ <>(pc = "done")

\* a crawl ended on a site whose links form a cycle through the start page,
\* after a pass that found the same URL twice in its queue
C11_Witness ==
    /\ pc = "done"
    /\ Len(state.results) >= 3
    /\ \E i \in DOMAIN state.results :
          state.results[i].url # state.start_url /\ state.start_url \in Range(state.results[i].links)
    /\ \E i \in DOMAIN trace :
          \E j, k \in DOMAIN trace[i].in.queue :
             j # k /\ trace[i].in.queue[j][1] = trace[i].in.queue[k][1]

(***************************************************************************)
(* C12: crawl never fetches a page whose depth, the number of link hops    *)
(* from the start URL along the path by which it was enqueued, exceeds     *)
(* max_depth: the links of a page at depth max_depth are not enqueued. On  *)
(* the chain page1 -> ... -> page5 with max_depth = 1 exactly 2 pages are  *)
(* returned.                                                               *)
(***************************************************************************)
\* the entry was enqueued from a returned page one hop nearer to the start
EnqueuedFrom(n) ==
    \E m \in 1..(n - 1) :
        /\ FetchedEntries[m][2] + 1 = FetchedEntries[n][2]
        /\ \E i \in DOMAIN state.results :
              /\ state.results[i].url = FetchedEntries[m][1]
              /\ FetchedEntries[n][1] \in Range(state.results[i].links)

C12_DepthBound ==
    /\ \A n \in DOMAIN FetchedEntries :
          /\ FetchedEntries[n][2] <= state.max_depth
          /\ IF n = 1 THEN FetchedEntries[n] = <<state.start_url, 0>> ELSE EnqueuedFrom(n)
    /\ \A k \in DOMAIN state.queue : state.queue[k][2] <= state.max_depth
    /\ (pc = "done" /\ state.site = SiteChain /\ state.max_depth = 1 /\ state.max_pages >= 2) =>
          /\ Len(state.results) = 2
          /\ state.results[1].url = R0
          /\ state.results[2].url = R1

\* the crawl of the chain ended at max_depth = 1 with budget to spare
C12_Witness ==
    /\ pc = "done"
    /\ state.site = SiteChain
    /\ state.max_depth = 1
    /\ state.max_pages = MaxPages
    /\ Len(state.results) = 2
    /\ state.results[2].links = <<R2>>

(***************************************************************************)
(* C13: crawl neither fetches nor returns a page whose host differs from   *)
(* the host of the start URL: the links of every scraped page are http or  *)
(* https URLs on the page's own host, so no cross-domain link is enqueued. *)
(***************************************************************************)
\* the host of a URL: its authority without user information and port
Host(u) ==
    LET authority == urlparse(u, <<>>).netloc
        ats == {i \in DOMAIN authority : authority[i] = "@"}
        from == IF ats = {} THEN 1 ELSE (CHOOSE i \in ats : \A j \in ats : j <= i) + 1
        hostport == SubSeq(authority, from, Len(authority))
    IN Lower(SubSeq(hostport, 1, FirstOf(hostport, {":"}, 1) - 1))

IsHttp(u) == HasPrefixAt(u, 1, HTTP) \/ HasPrefixAt(u, 1, HTTPS)

C13_SameHostOnly ==
    /\ \A n \in DOMAIN FetchedEntries : Host(FetchedEntries[n][1]) = Host(state.start_url)
    /\ \A k \in DOMAIN state.queue : Host(state.queue[k][1]) = Host(state.start_url)
    /\ \A i \in DOMAIN state.results :
          /\ Host(state.results[i].url) = Host(state.start_url)
          /\ \A k \in DOMAIN state.results[i].links :
                /\ IsHttp(state.results[i].links[k])
                /\ Host(state.results[i].links[k]) = Host(state.results[i].url)

\* a crawl ended that returned a page with links off the host and went on to
\* fetch the internal link of that page
C13_Witness ==
    /\ pc = "done"
    /\ \E i \in DOMAIN state.results :
          /\ state.site[state.results[i].url].kind = "ok"
          /\ state.site[state.results[i].url].hrefs = OutHrefs
          /\ state.results[i].links = <<R3, state.results[i].url>>
          /\ state.results[i].url # R3
          /\ \E j \in DOMAIN state.results : state.results[j].url = R3

(***************************************************************************)
(* C14: crawl returns exactly min(max_pages, R) pages, R being the number  *)
(* of pages that fetch without error and are reachable from the start URL  *)
(* within max_depth hops through pages that fetch without error; a failed  *)
(* fetch does not consume page budget.                                     *)
(***************************************************************************)
FetchesWithoutError(site, u) == Fetch(site, u).kind = "ok"

\* the pages that fetch without error within d hops of those of within
RECURSIVE ReachableWithin(_, _, _)
ReachableWithin(site, within, d) ==
    IF d = 0 THEN within
    ELSE ReachableWithin(site,
                         within \cup {v \in UNION {Range(scrape_url(u, Fetch(site, u)).links) :
                                                      u \in within} :
                                         FetchesWithoutError(site, v)},
                         d - 1)

Reachable(site, start_url, max_depth) ==
    IF FetchesWithoutError(site, start_url)
    THEN ReachableWithin(site, {start_url}, max_depth)
    ELSE {}

C14_ExactPageCount ==
    pc = "done" =>
        Len(state.results) =
            Min(state.max_pages,
                Cardinality(Reachable(state.site, state.start_url, state.max_depth)))

(***************************************************************************)
(* SpecFetch: ScraperAgent.scrape_url on pages whose text is around the    *)
(* ceiling, in one line or several, with blank lines and padding, and on   *)
(* the fetches that fail.                                                  *)
(***************************************************************************)
\* the text of n characters c
Fill(c, n) == [i \in 1..n |-> c]

\* the lengths of cleaned text tried
TextLengths ==
    {0, 1, 2, 3, ContentCeiling - 1, ContentCeiling, ContentCeiling + 1,
     ContentCeiling + Len(TRUNCATED) - 1, ContentCeiling + Len(TRUNCATED),
     ContentCeiling + Len(TRUNCATED) + 1}

\* markdown texts whose cleaned text has n characters: one line, one line with
\* blank lines and padding around it, and two lines with a blank one between
Markdowns(n) ==
    {Fill(c, n) : c \in {"x", "y"}}
        \cup {<<" ", "\n", "\t">> \o Fill(c, n) \o <<" ", "\n", "\n">> : c \in {"x", "y"}}
        \cup (IF n < 3 THEN {}
              ELSE {<<c, " ", "\n", " ", "\n", " ">> \o Fill(c, n - 2) : c \in {"x", "y"}})

FetchInputs ==
    {HtmlPage("T", text, << <<"/", "1">> >>, 0) : text \in UNION {Markdowns(n) : n \in TextLengths}}
        \cup {[kind |-> "empty"], [kind |-> "nocontent", title |-> "T"], NotFound,
              [kind |-> "timeout"], RaisesBlank, [kind |-> "raise", message |-> "boom"]}

FetchInit ==
    /\ state \in {[url |-> R0, page |-> page] : page \in FetchInputs}
    /\ pc = "scrape_url"
    /\ trace = <<>>

FetchStep ==
    /\ pc = "scrape_url"
    /\ \E item \in {scrape_url(state.url, state.page)} :
          trace' = Append(trace,
                          Ran("scrape_url", state,
                              [ret |-> item, calls |-> << <<"httpx.get", state.url>> >>],
                              state.page))
    /\ pc' = "done"
    /\ UNCHANGED state

SpecFetch == FetchInit /\ [][FetchStep]_vars

(***************************************************************************)
(* C15: for a page fetched successfully, cleaned text longer than the      *)
(* ceiling is returned as its first ceiling characters followed by the     *)
(* marker "...[truncated]" (so it ends with the marker and has ceiling +   *)
(* marker length characters); cleaned text of at most the ceiling is       *)
(* returned unchanged, without marker.                                     *)
(***************************************************************************)
\* the cleaned text of a markdown text made of runs of one character: its
\* lines without the blank ones, each without the space around it
CleanedOf(markdown_text) ==
    LET kept == SelectSeq(markdown_text, LAMBDA c : ~IsSpace(c))
        first == CHOOSE i \in DOMAIN markdown_text : ~IsSpace(markdown_text[i])
    IN IF kept = <<>> THEN <<>>
       ELSE IF first = 1 /\ Len(markdown_text) > 1 /\ markdown_text[2] = " "
            THEN <<kept[1], "\n">> \o Tail(kept)
       ELSE kept

C15_WitnessWhole ==
    /\ pc = "done"
    /\ Len(trace) = 1
    /\ trace[1].in.page.kind = "ok"
    /\ Len(trace[1].out.content) = ContentCeiling
    /\ trace[1].out.content = CleanedOf(trace[1].in.page.content)

(***************************************************************************)
(* SpecCoordinator: coordinator_node called on a state, as the unit tests  *)
(* do, with each of web_context, search_performed, direct_scrape and       *)
(* memory_context absent or set, and messages of every shape.              *)
(***************************************************************************)
Absent == [has |-> FALSE]

Present(v) == [has |-> TRUE, v |-> v]

PutIf(s, key, opt) == IF opt.has THEN Put(s, key, opt.v) ELSE s

\* a message object with type and content attributes
ObjMsg(type, content) == [shape |-> "obj", type |-> type, content |-> content]

\* an entry that is neither: str is str(entry)
OtherMsg(str) == [shape |-> "other", str |-> str]

CoordinatorMessages ==
    { <<>>,
      << DictMsg("user", <<"a">>) >>,
      << ObjMsg("human", <<"a">>), ObjMsg("ai", <<"b">>), ObjMsg("system", <<"c">>),
         ObjMsg("tool", <<"d">>) >>,
      << [shape |-> "dict", d |-> [content |-> <<"e">>]],
         OtherMsg(<<"4", "2">>),
         [shape |-> "dict", d |-> [role |-> "assistant"]],
         DictMsg("system", <<"p">>),
         ObjMsg("ai", <<"b">>),
         DictMsg("tool", <<"r">>) >> }

\* what list_tools() returns
ToolLists == { <<>>, <<"get_weather">> }

Flags == {Absent, Present(FALSE), Present(TRUE)}

CoordinatorStates ==
    { PutIf(PutIf(PutIf(PutIf(InitialState("s1", <<"q">>, messages),
                              "web_context", web_context),
                        "search_performed", search_performed),
                  "direct_scrape", direct_scrape),
            "memory_context", memory_context) :
        messages \in CoordinatorMessages,
        web_context \in {Absent, Present(<<>>), Present(<<"w">>)},
        search_performed \in Flags,
        direct_scrape \in Flags,
        memory_context \in {Absent, Present(<<"m">>)} }

CoordinatorInit ==
    /\ state \in CoordinatorStates
    /\ pc = "coordinator_node"
    /\ trace = <<>>

CoordinatorStep ==
    /\ pc = "coordinator_node"
    /\ \E tools \in ToolLists :
          trace' = Append(trace,
                          Ran("coordinator", state, coordinator_node(state, tools),
                              [tools |-> tools]))
    /\ pc' = "done"
    /\ UNCHANGED state

SpecCoordinator == CoordinatorInit /\ [][CoordinatorStep]_vars

(***************************************************************************)
(* C16: the system prompt the coordinator builds holds at most one of the  *)
(* three contextual blocks: the web block iff web_context is non-empty;    *)
(* otherwise the found-nothing block iff search_performed is true;         *)
(* otherwise the could-not-read block iff direct_scrape is true;           *)
(* otherwise none.                                                         *)
(***************************************************************************)
ContextualBlocks == {"web", "found_nothing", "could_not_read"}

\* the contextual blocks of a system prompt, in order
ContextualIn(system_prompt) ==
    SelectSeq([k \in DOMAIN system_prompt |-> system_prompt[k].block],
              LAMBDA b : b \in ContextualBlocks)

C16_OneContextualBlock ==
    \A i \in DOMAIN trace :
        trace[i].node = "coordinator" =>
            LET s == trace[i].in
                found == ContextualIn(trace[i].out["final_messages"][1].content)
                has_web == "web_context" \in DOMAIN s /\ s["web_context"] # <<>>
                searched == "search_performed" \in DOMAIN s /\ s["search_performed"]
                direct == "direct_scrape" \in DOMAIN s /\ s["direct_scrape"]
            IN /\ Len(found) <= 1
               /\ found = (IF has_web THEN <<"web">>
                           ELSE IF searched THEN <<"found_nothing">>
                           ELSE IF direct THEN <<"could_not_read">>
                           ELSE <<>>)

\* a state with web context, a search performed and a direct scrape at once
\* got the web block alone
C16_Witness ==
    /\ pc = "done"
    /\ Len(trace) = 1
    /\ trace[1].node = "coordinator"
    /\ Get(trace[1].in, "web_context", <<>>) # <<>>
    /\ Get(trace[1].in, "search_performed", FALSE)
    /\ Get(trace[1].in, "direct_scrape", FALSE)
    /\ ContextualIn(trace[1].out["final_messages"][1].content) = <<"web">>

\* a state with only direct_scrape set got the could-not-read block
C16_WitnessCouldNotRead ==
    /\ pc = "done"
    /\ Len(trace) = 1
    /\ trace[1].node = "coordinator"
    /\ Get(trace[1].in, "web_context", <<>>) = <<>>
    /\ ~Get(trace[1].in, "search_performed", FALSE)
    /\ Get(trace[1].in, "direct_scrape", FALSE)
    /\ ContextualIn(trace[1].out["final_messages"][1].content) = <<"could_not_read">>

(***************************************************************************)
(* C18: final_messages has 1 + len(messages) entries: the first is the one *)
(* system-role prompt, and entry i+1 is input message i as {role, content}:*)
(* an object maps human to user, ai to assistant, system to system and any *)
(* other type to user, keeping its content; a record keeps its role and    *)
(* content (user and the empty string when missing); any other entry       *)
(* becomes role user with content str(entry). Nothing is dropped,          *)
(* reordered or duplicated.                                                *)
(***************************************************************************)
\* the {role, content} form the normalisation owes an input message
Normalised(msg) ==
    IF msg.shape = "obj"
    THEN [role |-> IF msg.type = "ai" THEN "assistant"
                   ELSE IF msg.type = "system" THEN "system"
                   ELSE "user",
          content |-> msg.content]
    ELSE IF msg.shape = "dict"
    THEN [role |-> IF "role" \in DOMAIN msg.d THEN msg.d.role ELSE "user",
          content |-> IF "content" \in DOMAIN msg.d THEN msg.d.content ELSE <<>>]
    ELSE [role |-> "user", content |-> msg.str]

C18_FinalMessagesShape ==
    \A i \in DOMAIN trace :
        trace[i].node = "coordinator" =>
            LET input_messages == Get(trace[i].in, "messages", <<>>)
                final_messages == trace[i].out["final_messages"]
            IN /\ Len(final_messages) = 1 + Len(input_messages)
               /\ final_messages[1].role = "system"
               /\ final_messages[1].content = SystemPrompt(trace[i].in, trace[i].ext.tools)
               /\ \A k \in DOMAIN input_messages :
                     final_messages[k + 1] = Normalised(input_messages[k])

\* six messages of all three shapes, two of them with a part missing, came
\* out as seven entries, the object of type ai as assistant
C18_Witness ==
    /\ pc = "done"
    /\ Len(trace) = 1
    /\ trace[1].node = "coordinator"
    /\ Len(trace[1].in["messages"]) = 6
    /\ Len(trace[1].out["final_messages"]) = 7
    /\ trace[1].in["messages"][2].shape = "other"
    /\ trace[1].out["final_messages"][3] = [role |-> "user", content |-> <<"4", "2">>]
    /\ trace[1].out["final_messages"][6] = [role |-> "assistant", content |-> <<"b">>]

(***************************************************************************)
(* C20: coordinator_node sets final_response in the state it returns to    *)
(* the reply of a chat call on the prompt it assembled (with the title and *)
(* URL of every source after it when sources is non-empty).                *)
(***************************************************************************)
C20_SetsFinalResponse ==
    \A i \in DOMAIN trace :
        trace[i].node = "coordinator" =>
            /\ "final_response" \in DOMAIN trace[i].out
            /\ \E k \in DOMAIN trace[i].calls : trace[i].calls[k][1] = "chat"

(***************************************************************************)
(* Spec: one turn through the compiled graph, as run and stream execute    *)
(* it: retrieve, router, the branch should_search picks, coordinator.      *)
(***************************************************************************)
TurnQueries == { <<"q">>, <<"s", "e", "e", " ">> \o D1 }

TurnMessages ==
    { Msgs1,
      << DictMsg("system", <<"p">>), DictMsg("assistant", <<"b">>), DictMsg("user", <<"a">>) >> }

Recalls == { <<>>, <<"m">> }

Raw(title, url) == [title |-> title, href |-> url, body |-> "B"]

TurnSearchOutcomes ==
    { [raises |-> TRUE, results |-> <<>>],
      [raises |-> FALSE, results |-> <<>>],
      [raises |-> FALSE, results |-> << Raw("T1", P1), Raw("T2", D1) >>],
      [raises |-> FALSE, results |-> << Raw("T3", D1), Raw("T4", P2), Raw("T1", P1) >>] }

TurnExtractOutcomes == { ReplyRaises, Reply(<<"o", "k">>), Reply(SENTINEL) }

Init ==
    /\ state \in {WriteChannels(EmptyDict, InitialState("s1", q, m)) :
                     q \in TurnQueries, m \in TurnMessages}
    /\ pc = "retrieve"
    /\ trace = <<>>

Retrieve ==
    /\ pc = "retrieve"
    /\ \E rag_context \in Recalls, graph_context \in Recalls :
          \E r \in {retrieve_node(state, rag_context, graph_context)} :
             /\ state' = WriteChannels(state, r.ret)
             /\ trace' = Append(trace,
                                Ran("retrieve", state, r,
                                    [rag |-> rag_context, graph |-> graph_context]))
    /\ pc' = "router"

Router ==
    /\ pc = "router"
    /\ \E cls \in FewClassifierOutcomes :
          \E r \in {router_node(state, cls)} :
             /\ state' = WriteChannels(state, r.ret)
             /\ trace' = Append(trace, Ran("router", state, r, cls))
    /\ pc' = should_search(state')

Search ==
    /\ pc = "search"
    /\ \E exp \in SearchExpandOutcomes :
          \E queries \in {extract_search_queries(state["user_query"], exp)} :
             \E outcomes \in [DOMAIN queries -> TurnSearchOutcomes] :
                \E r \in {search_node(state, exp, outcomes)} :
                   /\ state' = WriteChannels(state, r.ret)
                   /\ trace' = Append(trace,
                                      Ran("search", state, r,
                                          [expand |-> exp, searches |-> outcomes]))
    /\ pc' = "scrape"

Scrape ==
    /\ pc = "scrape"
    /\ \E site \in Sites :
          \E scraped \in {ScrapeAll(state, site).ret} :
             \E extracts \in [DOMAIN scraped -> TurnExtractOutcomes] :
                \E r \in {scrape_node(state, site, extracts)} :
                   /\ state' = WriteChannels(state, r.ret)
                   /\ trace' = Append(trace,
                                      Ran("scrape", state, r,
                                          [site |-> site, extracts |-> extracts]))
    /\ pc' = "coordinator"

Coordinator ==
    /\ pc = "coordinator"
    /\ \E tools \in ToolLists :
          \E r \in {coordinator_node(state, tools)} :
             /\ state' = WriteChannels(state, r.ret)
             /\ trace' = Append(trace, Ran("coordinator", state, r, [tools |-> tools]))
    /\ pc' = "END"

Next == Retrieve \/ Router \/ Search \/ Scrape \/ Coordinator

Spec == Init /\ [][Next]_vars

(***************************************************************************)
(* C3: the stages of a turn run in the order retrieve, router, then scrape *)
(* alone if the router set direct_scrape, else search and scrape if it set *)
(* needs_search, else neither; coordinator runs once, last.                *)
(***************************************************************************)
\* the stages the transition table asks for, given the dict the router returned
StagesFor(routed) ==
    <<"retrieve", "router">>
        \o (IF Get(routed, "direct_scrape", FALSE) THEN <<"scrape">>
            ELSE IF Get(routed, "needs_search", FALSE) THEN <<"search", "scrape">>
            ELSE <<>>)
        \o <<"coordinator">>

C3_StageOrder ==
    pc = "END" => Nodes = StagesFor(trace[2].out)

(***************************************************************************)
(* C4: in a run of the compiled graph each field a stage writes is there,  *)
(* with the value written, in the state the next stage (and the routing    *)
(* decision) is given and in the state returned at the end of the turn.    *)
(***************************************************************************)
WrittenBy(node) ==
    CASE node = "retrieve" -> {"memory_context"}
      [] node = "router" -> {"needs_search", "direct_scrape", "urls_to_scrape"}
      [] node = "search" -> {"search_performed"}
      [] node = "scrape" -> {"web_context", "sources"}
      [] node = "coordinator" -> {"final_messages"}

C4_WrittenFieldsVisible ==
    \A i \in DOMAIN trace :
        LET seen == IF i < Len(trace) THEN trace[i + 1].in ELSE state
        IN \A k \in WrittenBy(trace[i].node) \cap DOMAIN trace[i].out :
              /\ k \in DOMAIN seen
              /\ seen[k] = trace[i].out[k]
              /\ pc = "END" => k \in DOMAIN state

(***************************************************************************)
(* C8: search_performed is true in the state of a turn exactly when the    *)
(* search stage was entered, whatever the searches found or raised; a turn *)
(* that the router did not send to search never carries it.                *)
(***************************************************************************)
C8_SearchPerformedIffSearched ==
    /\ Get(state, "search_performed", FALSE) = HasRun("search")
    /\ pc = "END" => (("search_performed" \in DOMAIN state) <=> ("search" \in Range(Nodes)))

\* a turn ended whose query expansion raised and whose search raised too
C8_Witness ==
    /\ pc = "END"
    /\ HasRun("search")
    /\ \E i \in DOMAIN trace :
          /\ trace[i].node = "search"
          /\ trace[i].ext.expand.raises
          /\ trace[i].ext.searches[1].raises
          /\ trace[i].out["search_results"] = <<>>
    /\ state["search_performed"] = TRUE
    /\ state["web_context"] = <<>>

\* ... and a turn ended that was answered directly
C8_WitnessDirect ==
    /\ pc = "END"
    /\ Nodes = <<"retrieve", "router", "coordinator">>
    /\ "search_performed" \notin DOMAIN state


(***************************************************************************)
(* C17: in every turn in which the search stage ran and web_context came   *)
(* out empty, the system prompt of the final_messages the coordinator      *)
(* builds holds the instruction to tell the user that nothing relevant was *)
(* found on the web, and no web-context block.                             *)
(***************************************************************************)
C17_FoundNothingSaid ==
    \A i \in DOMAIN trace :
        (/\ trace[i].node = "coordinator"
         /\ \E j \in 1..(i - 1) : trace[j].node = "search"
         /\ Get(trace[i].in, "web_context", <<>>) = <<>>) =>
            ContextualIn(trace[i].out["final_messages"][1].content) = <<"found_nothing">>

\* a turn whose search found results, none of which gave relevant text, ended
\* with the instruction in the prompt
C17_Witness ==
    /\ pc = "END"
    /\ \E j \in DOMAIN trace :
          /\ trace[j].node = "search"
          /\ trace[j].out["search_results"] # <<>>
    /\ \E j \in DOMAIN trace :
          /\ trace[j].node = "scrape"
          /\ trace[j].out["web_context"] = <<>>
    /\ \E i \in DOMAIN trace :
          /\ trace[i].node = "coordinator"
          /\ \E k \in DOMAIN trace[i].out["final_messages"][1].content :
                trace[i].out["final_messages"][1].content[k].block = "found_nothing"


(***************************************************************************)
(* SpecStream: the turn as EnhancedCoordinator.run_stream drives it: the   *)
(* graph is streamed and, of each event, the caller is handed the update   *)
(* the stage wrote to the channels. On the coordinator's event the caller  *)
(* streams the model on final_messages, or falls back on final_response;   *)
(* after the stream it saves what it accumulated.                          *)
(***************************************************************************)
\* what llm.chat_stream does: the content of each chunk it yields, and whether
\* it raises after them
ChatStream(chunks, raises) == [chunks |-> chunks, raises |-> raises]

StreamOutcomes ==
    { ChatStream(<< <<"h", "i">>, <<>>, <<"!">> >>, FALSE),
      ChatStream(<<>>, FALSE),
      ChatStream(<< <<"h">> >>, TRUE) }

\* no stream was asked for
NoStream == ChatStream(<<>>, FALSE)

\* the update a stage's event carries: the keys of the schema the stage returned
EventOf(returned) == Restrict(returned, AgentStateKeys)

Token(content) == [type |-> "token", content |-> content]

\* the coordinator branch of the event loop, with the except clause around it
\* the handling of the coordinator's event as it would be if the error text
\* of a failed model call were accumulated with the answer
OnCoordinatorKeepsError(node_state, stream) ==
    LET final_messages == Get(node_state, "final_messages", <<>>)
        final_response == Get(node_state, "final_response", <<>>)
        spoken == SelectSeq(stream.chunks, LAMBDA content : content # <<>>)
        failed == IF stream.raises
                  THEN << Token(<<"[", "E", "r", "r", "o", "r", "]">>) >>
                  ELSE <<>>
    IN IF final_messages # <<>>
       THEN [ret |-> [yielded |-> [k \in DOMAIN spoken |-> Token(spoken[k])] \o failed,
                      final_response_accumulator |->
                          JoinWith(spoken, <<>>)
                              \o (IF stream.raises THEN <<"[", "E", "r", "r", "o", "r", "]">>
                                  ELSE <<>>)],
             calls |-> << <<"chat_stream", final_messages>> >>]
       ELSE IF final_response # <<>>
       THEN [ret |-> [yielded |-> << Token(final_response) >>,
                      final_response_accumulator |-> final_response],
             calls |-> <<>>]
       ELSE [ret |-> [yielded |-> <<>>, final_response_accumulator |-> <<>>],
             calls |-> <<>>]

OnCoordinator(node_state, stream) ==
    LET final_messages == Get(node_state, "final_messages", <<>>)
        final_response == Get(node_state, "final_response", <<>>)
        spoken == SelectSeq(stream.chunks, LAMBDA content : content # <<>>)
        failed == IF stream.raises
                  THEN << Token(<<"[", "E", "r", "r", "o", "r", "]">>) >>
                  ELSE <<>>
    IN IF final_messages # <<>>
       THEN [ret |-> [yielded |-> [k \in DOMAIN spoken |-> Token(spoken[k])] \o failed,
                      final_response_accumulator |-> JoinWith(spoken, <<>>)],
             calls |-> << <<"chat_stream", final_messages>> >>]
       ELSE IF final_response # <<>>
       THEN [ret |-> [yielded |-> << Token(final_response) >>,
                      final_response_accumulator |-> final_response],
             calls |-> <<>>]
       ELSE [ret |-> [yielded |-> <<>>, final_response_accumulator |-> <<>>],
             calls |-> <<>>]

\* step 5 as it would be if it saved whatever was accumulated, even nothing
SaveAssistantMessageAlways(session_id, final_response_accumulator) ==
    [ret |-> final_response_accumulator,
     calls |-> << <<"add_message_async", session_id, "assistant",
                    final_response_accumulator>> >>]

\* step 5 of run_stream
SaveAssistantMessage(session_id, final_response_accumulator) ==
    [ret |-> final_response_accumulator,
     calls |-> IF final_response_accumulator # <<>>
               THEN << <<"add_message_async", session_id, "assistant",
                         final_response_accumulator>> >>
               ELSE <<>>]

StreamCoordinatorEvent ==
    /\ pc = "END"
    /\ LET node_state == EventOf(trace[Len(trace)].out)
       IN \E stream \in IF Get(node_state, "final_messages", <<>>) # <<>>
                        THEN StreamOutcomes ELSE {NoStream} :
             trace' = Append(trace,
                             Ran("run_stream", node_state,
                                 OnCoordinator(node_state, stream), stream))
    /\ pc' = "streamed"
    /\ UNCHANGED state

StreamSave ==
    /\ pc = "streamed"
    /\ trace' = Append(trace,
                       Ran("save", trace[Len(trace)].out,
                           SaveAssistantMessage(state["session_id"],
                               trace[Len(trace)].out.final_response_accumulator),
                           <<>>))
    /\ pc' = "returned"
    /\ UNCHANGED state

StreamNext == Retrieve \/ Router \/ Search \/ Scrape \/ Coordinator
                \/ StreamCoordinatorEvent \/ StreamSave

SpecStream == Init /\ [][StreamNext]_vars

(***************************************************************************)
(* C19: the coordinator stage makes no call to the language model, and the *)
(* one answer-producing call of a turn is the streamed call run_stream     *)
(* makes on the final_messages carried by the coordinator's event.         *)
(***************************************************************************)
\* the calls of the turn that ask the model for the answer, with who made them
AnswerCalls ==
    SelectSeq([k \in DOMAIN trace |->
                  [node |-> trace[k].node,
                   asked |-> /\ trace[k].node \in {"coordinator", "run_stream"}
                             /\ \E n \in DOMAIN trace[k].calls :
                                   trace[k].calls[n][1] \in {"chat", "chat_stream"}]],
              LAMBDA e : e.asked)

C19_OneStreamedCall ==
    /\ \A i \in DOMAIN trace :
          trace[i].node = "coordinator" =>
              /\ "final_messages" \in DOMAIN trace[i].out
              /\ \A n \in DOMAIN trace[i].calls : trace[i].calls[n][1] = "list_tools"
    /\ pc = "returned" =>
          /\ Len(AnswerCalls) = 1
          /\ AnswerCalls[1].node = "run_stream"
          /\ \E i \in DOMAIN trace :
                /\ trace[i].node = "run_stream"
                /\ trace[i - 1].node = "coordinator"
                /\ trace[i].calls = << <<"chat_stream", trace[i - 1].out["final_messages"]>> >>

(***************************************************************************)
(* SpecRun: the turn as MaskWorkflow.run drives it: the graph is invoked   *)
(* and run returns final_response of the state the graph ends in, or the   *)
(* placeholder.                                                            *)
(***************************************************************************)
\* "I couldn't generate a response."
PLACEHOLDER ==
    <<"I", " ", "c", "o", "u", "l", "d", "n", "'", "t", " ", "g", "e", "n", "e", "r", "a",
      "t", "e", " ", "a", " ", "r", "e", "s", "p", "o", "n", "s", "e", ".">>

\* return final_state.get("final_response", "I couldn't generate a response.")
run(final_state) ==
    [ret |-> Get(final_state, "final_response", PLACEHOLDER), calls |-> <<>>]

RunReturn ==
    /\ pc = "END"
    /\ trace' = Append(trace, Ran("run", state, run(state), <<>>))
    /\ pc' = "returned"
    /\ UNCHANGED state

RunNext == Retrieve \/ Router \/ Search \/ Scrape \/ Coordinator \/ RunReturn

SpecRun == Init /\ [][RunNext]_vars

(***************************************************************************)
(* C21: run executes the graph and returns the answer text that the        *)
(* terminal (coordinator) state carries as final_response; it returns the  *)
(* placeholder only when the terminal state carries no final_response.     *)
(***************************************************************************)
C21_RunReturnsAnswer ==
    pc = "returned" =>
        LET final_state == trace[Len(trace)].in
            returned == trace[Len(trace)].out
        IN /\ trace[Len(trace) - 1].node = "coordinator"
           /\ "final_response" \in DOMAIN final_state
           /\ returned = final_state["final_response"]
           /\ returned = PLACEHOLDER => "final_response" \notin DOMAIN final_state

(***************************************************************************)
(* SpecRunStream: EnhancedCoordinator.run_stream over a workflow stream    *)
(* handed to it, as its unit tests do: the events the workflow yields (or  *)
(* its raising), and what chat_stream yields, are drawn; run_stream saves  *)
(* the user message, handles the events one by one, and saves what it      *)
(* accumulated.                                                            *)
(***************************************************************************)
Event(node_name, node_state) ==
    [raises |-> FALSE, node_name |-> node_name, node_state |-> node_state]

\* the workflow stream raises instead of yielding its next event
StreamRaises == [raises |-> TRUE, node_name |-> "", node_state |-> EmptyDict]

Source(title, url) == [title |-> title, url |-> url]

MockSources ==
    { <<>>,
      << Source(<<"T", "1">>, P1) >>,
      << Source(<<"T", "2">>, P2), Source(<<"T", "1">>, P1) >> }

MockMessages == << [role |-> "system", content |-> <<"s">>], [role |-> "user", content |-> <<"q">>] >>

\* the update of the coordinator's event: with final_messages, with a
\* final_response, with both (the response empty), or with neither
MockCoordinatorStates ==
    UNION { { [final_messages |-> MockMessages, sources |-> sources],
              [final_messages |-> MockMessages, final_response |-> <<>>, sources |-> sources],
              [final_response |-> <<"4", "2">>, sources |-> sources],
              [sources |-> sources] } : sources \in MockSources }

MockEventLists ==
    UNION { { << Event("router", [needs_search |-> FALSE]), Event("coordinator", node_state) >>,
              << Event("retrieve", EmptyDict),
                 Event("router", [needs_search |-> TRUE]),
                 Event("search", [search_results |-> <<"r1", "r2">>]),
                 Event("scrape", [scraped_content |->
                                     << ScrapedContent(P1, "T1", <<"c">>, <<>>, None),
                                        ScrapedContent(P2, "Error", <<>>, <<>>, "Timeout") >>]),
                 Event("coordinator", node_state) >> } :
            node_state \in MockCoordinatorStates }
        \cup { <<>>, << StreamRaises >>,
               << Event("router", [needs_search |-> TRUE]), StreamRaises >> }

RunStreamInit ==
    /\ state \in { [session_id |-> "s1", user_input |-> <<"q">>, events |-> events,
                    stream |-> stream, at |-> 1, yielded |-> <<>>,
                    final_response_accumulator |-> <<>>, saved |-> <<>>] :
                      events \in MockEventLists, stream \in StreamOutcomes }
    /\ pc = "begin"
    /\ trace = <<>>

\* step 3: the user message is saved before the workflow is started
RunStreamBegin ==
    /\ pc = "begin"
    /\ state' = [state EXCEPT !.saved = Append(@, [role |-> "user", content |-> state.user_input])]
    /\ trace' = Append(trace,
                       Ran("begin", state,
                           [ret |-> <<>>,
                            calls |-> << <<"add_message_async", state.session_id, "user",
                                           state.user_input>> >>],
                           <<>>))
    /\ pc' = IF state.events = <<>> THEN "save" ELSE "events"

Status(content) == [type |-> "status", content |-> content]

\* "\n[Error] Something went wrong: ..."
ErrorToken == Token(<<"[", "E", "r", "r", "o", "r", "]">>)

\* what the event loop yields for one event, what the accumulator becomes, the
\* calls it makes, and whether the loop was left through the except clause
OnEvent(final_response_accumulator, event, stream) ==
    IF event.raises
    THEN [yielded |-> << ErrorToken >>, final_response_accumulator |-> final_response_accumulator,
          calls |-> <<>>, raised |-> TRUE]
    ELSE IF event.node_name = "router"
    THEN [yielded |-> IF Get(event.node_state, "needs_search", FALSE)
                      THEN << Status("Searching the web...") >> ELSE <<>>,
          final_response_accumulator |-> final_response_accumulator,
          calls |-> <<>>, raised |-> FALSE]
    ELSE IF event.node_name = "search"
    THEN [yielded |-> << Status(Len(Get(event.node_state, "search_results", <<>>))) >>,
          final_response_accumulator |-> final_response_accumulator,
          calls |-> <<>>, raised |-> FALSE]
    ELSE IF event.node_name = "scrape"
    THEN [yielded |-> << Status(Len(SelectSeq(Get(event.node_state, "scraped_content", <<>>),
                                              LAMBDA s : ~Truthy(s.error)))) >>,
          final_response_accumulator |-> final_response_accumulator,
          calls |-> <<>>, raised |-> FALSE]
    ELSE IF event.node_name = "coordinator"
    THEN With(OnCoordinator(event.node_state, stream), LAMBDA r :
            [yielded |-> r.ret.yielded,
             final_response_accumulator |->
                 IF Get(event.node_state, "final_messages", <<>>) # <<>>
                 THEN final_response_accumulator \o r.ret.final_response_accumulator
                 ELSE IF Get(event.node_state, "final_response", <<>>) # <<>>
                 THEN r.ret.final_response_accumulator
                 ELSE final_response_accumulator,
             calls |-> r.calls,
             raised |-> Get(event.node_state, "final_messages", <<>>) # <<>> /\ stream.raises])
    ELSE [yielded |-> <<>>, final_response_accumulator |-> final_response_accumulator,
          calls |-> <<>>, raised |-> FALSE]

RunStreamEvent ==
    /\ pc = "events"
    /\ \E r \in {OnEvent(state.final_response_accumulator, state.events[state.at], state.stream)} :
          /\ state' = [state EXCEPT !.at = @ + 1,
                                    !.yielded = @ \o r.yielded,
                                    !.final_response_accumulator = r.final_response_accumulator]
          /\ trace' = Append(trace,
                             Ran("run_stream", state.events[state.at],
                                 [ret |-> r.yielded, calls |-> r.calls], state.stream))
          /\ pc' = IF r.raised \/ state.at = Len(state.events) THEN "save" ELSE "events"

RunStreamSave ==
    /\ pc = "save"
    /\ \E r \in {SaveAssistantMessage(state.session_id, state.final_response_accumulator)} :
          /\ state' = [state EXCEPT !.saved =
                          IF r.calls # <<>>
                          THEN Append(@, [role |-> "assistant", content |-> r.ret])
                          ELSE @]
          /\ trace' = Append(trace, Ran("save", state.final_response_accumulator, r, <<>>))
    /\ pc' = "returned"

RunStreamNext == RunStreamBegin \/ RunStreamEvent \/ RunStreamSave

SpecRunStream == RunStreamInit /\ [][RunStreamNext]_vars

(***************************************************************************)
(* C25: when run_stream has finished, the assistant message saved for the  *)
(* session is the in-order concatenation of the content of the token       *)
(* chunks it yielded; it is saved once, after the last token; none is      *)
(* saved when no token content was produced. As stated, every token chunk  *)
(* counts; as the code has it, the error token yielded from the except     *)
(* clause does not.                                                        *)
(***************************************************************************)
TokensYielded == SelectSeq(state.yielded, LAMBDA y : y.type = "token")

AssistantSaved == SelectSeq(state.saved, LAMBDA m : m.role = "assistant")

\* the concatenation of the content of the chunks
ContentOf(chunks) == JoinWith([k \in DOMAIN chunks |-> chunks[k].content], <<>>)

\* the calls of the turn that save an assistant message are made in its last step
SavedLast ==
    \A i \in DOMAIN trace :
        (\E n \in DOMAIN trace[i].calls :
            /\ trace[i].calls[n][1] = "add_message_async"
            /\ trace[i].calls[n][3] = "assistant") => i = Len(trace)

SavedIs(text) ==
    /\ SavedLast
    /\ AssistantSaved = IF text # <<>> THEN << [role |-> "assistant", content |-> text] >>
                        ELSE <<>>

C25_SavedIsAllTokens ==
    pc = "returned" => SavedIs(ContentOf(TokensYielded))

C25_SavedIsAnswerTokens ==
    pc = "returned" =>
        SavedIs(ContentOf(SelectSeq(TokensYielded, LAMBDA y : y # ErrorToken)))

\* a turn whose model call raised after one chunk: the chunk and the error
\* token were yielded, the chunk alone was saved
C25_Witness ==
    /\ pc = "returned"
    /\ Len(TokensYielded) = 2
    /\ TokensYielded[2] = ErrorToken
    /\ AssistantSaved = << [role |-> "assistant", content |-> <<"h">>] >>

\* a turn whose model call yielded three chunks, one of them empty
C25_WitnessWhole ==
    /\ pc = "returned"
    /\ Len(TokensYielded) = 2
    /\ AssistantSaved = << [role |-> "assistant", content |-> <<"h", "i", "!">>] >>

(***************************************************************************)
(* C22: in the streaming path, when the streamed model call has completed  *)
(* and the turn's sources are not empty, the text saved as the assistant   *)
(* message carries one footnote "- [title](url)" per source, in the order  *)
(* of sources, after the streamed text.                                    *)
(***************************************************************************)
Footnote(source) ==
    <<"-", " ", "[">> \o source.title \o <<"]", "(">> \o source.url \o <<")">>

C22_FootnotesAppended ==
    pc = "returned" =>
        \A i \in DOMAIN trace :
            (/\ trace[i].node = "run_stream"
             /\ trace[i].in.node_name = "coordinator"
             /\ \E n \in DOMAIN trace[i].calls : trace[i].calls[n][1] = "chat_stream"
             /\ ~trace[i].ext.raises
             /\ ContentOf(TokensYielded) # <<>>) =>
                /\ Len(AssistantSaved) = 1
                /\ \A k \in DOMAIN trace[i].in.node_state["sources"] :
                      Contains(AssistantSaved[1].content,
                               Footnote(trace[i].in.node_state["sources"][k]))

(***************************************************************************)
(* SpecRetrieve: retrieve_node with its two recall lookups,                *)
(* MemoryManager.search_relevant_history and GraphMemory.retrieve_context, *)
(* each against a store that answers or raises.                            *)
(***************************************************************************)
RAG_HEADER ==
    <<"R", "E", "L", "E", "V", "A", "N", "T", " ", "P", "A", "S", "T", " ",
      "C", "O", "N", "V", "E", "R", "S", "A", "T", "I", "O", "N", ":", "\n">>

GRAPH_HEADER ==
    <<"G", "R", "A", "P", "H", " ", "K", "N", "O", "W", "L", "E", "D", "G", "E", ":", "\n">>

\* a lookup, or a stage, that raised instead of returning
Raised(calls) == [raises |-> TRUE, ret |-> <<>>, calls |-> calls]

Answered(ret, calls) == [raises |-> FALSE, ret |-> ret, calls |-> calls]

\* search_relevant_history(query, project_id): vec is what the embedding call
\* and the vector search answer; qdrant.search_memory turns its own failure
\* into no results
search_relevant_history(query, project_id, vec) ==
    IF vec.embedding = "raises" THEN Answered(<<>>, << <<"embeddings", query>> >>)
    ELSE IF vec.embedding = "empty" THEN Answered(<<>>, << <<"embeddings", query>> >>)
    ELSE LET results == IF vec.search_raises THEN <<>> ELSE vec.results
             kept == SelectSeq(results,
                               LAMBDA payload :
                                  ~(project_id # None
                                      /\ Get(payload, "project_id", None) # project_id))
             context_parts ==
                 [k \in DOMAIN kept |->
                     <<"[">> \o Get(kept[k], "role", <<"u", "n", "k", "n", "o", "w", "n">>)
                         \o <<"]", ":", " ">> \o Get(kept[k], "content", <<>>)]
         IN Answered(IF context_parts # <<>>
                     THEN RAG_HEADER \o JoinWith(context_parts, <<"\n">>)
                     ELSE <<>>,
                     << <<"embeddings", query>>, <<"search_memory", "chat_history">> >>)

\* [w.strip() for w in text.split() if len(w) > 3]
Words(text) ==
    SelectSeq(Split([k \in DOMAIN text |-> IF IsSpace(text[k]) THEN " " ELSE text[k]], " "),
              LAMBDA w : Len(w) > 3)

\* f"{r['n.id']} --[{r['type(r)']}]--> {r['m.id']}"
Fact(r) == r.n \o <<" ", "-", "-", "[">> \o r.type \o <<"]", "-", "-", ">", " ">> \o r.m

\* retrieve_context(text): neo is what execute_read does for each word
retrieve_context(text, neo) ==
    With(Words(text), LAMBDA words :
        IF words # <<>> /\ neo.raises
        THEN Raised(<< <<"execute_read", words[1]>> >>)
        ELSE With(IF words = <<>> THEN <<>>
                  ELSE Unique([k \in DOMAIN neo.rows |-> Fact(neo.rows[k])], {}),
                  LAMBDA found_facts :
                     Answered(IF found_facts # <<>>
                              THEN GRAPH_HEADER \o JoinWith(found_facts, <<"\n">>)
                              ELSE <<>>,
                              [k \in DOMAIN words |-> <<"execute_read", words[k]>>])))

\* retrieve_node with its lookups: nothing in it stands between a lookup that
\* raises and the caller of the stage
retrieve(s, project_id, vec, neo) ==
    With(<<search_relevant_history(s["user_query"], project_id, vec),
           retrieve_context(s["user_query"], neo)>>,
         LAMBDA found :
            IF found[2].raises
            THEN Raised(found[1].calls \o found[2].calls)
            ELSE With(retrieve_node(s, found[1].ret, found[2].ret), LAMBDA r :
                    [raises |-> FALSE, ret |-> r.ret,
                     calls |-> found[1].calls \o found[2].calls]))

Payload(role, content, project_id) ==
    [role |-> role, content |-> content, project_id |-> project_id]

VecOutcomes ==
    { [embedding |-> "raises", search_raises |-> FALSE, results |-> <<>>],
      [embedding |-> "empty", search_raises |-> FALSE, results |-> <<>>],
      [embedding |-> "ok", search_raises |-> TRUE, results |-> <<>>],
      [embedding |-> "ok", search_raises |-> FALSE, results |-> <<>>],
      [embedding |-> "ok", search_raises |-> FALSE,
       results |-> << Payload(<<"u", "s", "e", "r">>, <<"a">>, "p1"),
                      [content |-> <<"b">>],
                      Payload(<<"a", "i">>, <<"c">>, "p2") >>] }

NeoOutcomes ==
    { [raises |-> TRUE, rows |-> <<>>],
      [raises |-> FALSE, rows |-> <<>>],
      [raises |-> FALSE,
       rows |-> << [n |-> <<"A">>, type |-> <<"R">>, m |-> <<"B">>],
                   [n |-> <<"A">>, type |-> <<"R">>, m |-> <<"B">>],
                   [n |-> <<"B">>, type |-> <<"R">>, m |-> <<"C">>] >>] }

RetrieveQueries ==
    { <<"q">>, <<"w", "h", "a", "t">>, <<"t", "e", "l", "l", " ", " ", "m", "e", " ", "m", "o", "r", "e">> }

\* the project of the session: None when it has none or get_session raises
ProjectIds == { None, "p1", "p3" }

RetrieveInit ==
    /\ state \in { InitialState("s1", q, Msgs1) : q \in RetrieveQueries }
    /\ pc = "retrieve_node"
    /\ trace = <<>>

RetrieveStep ==
    /\ pc = "retrieve_node"
    /\ \E project_id \in ProjectIds, vec \in VecOutcomes, neo \in NeoOutcomes :
          \E r \in {retrieve(state, project_id, vec, neo)} :
             /\ trace' = Append(trace,
                                Ran("retrieve", state, r,
                                    [project_id |-> project_id, vec |-> vec, neo |-> neo,
                                     raised |-> r.raises]))
             /\ pc' = IF r.raises THEN "raised" ELSE "done"
    /\ UNCHANGED state

SpecRetrieve == RetrieveInit /\ [][RetrieveStep]_vars

(***************************************************************************)
(* C23: memory recall never aborts a turn: each of the two lookups turns   *)
(* its own failure into the empty string, so the retrieve stage always     *)
(* completes, with memory_context the concatenation of the blocks that are *)
(* not empty.                                                              *)
(***************************************************************************)
C23_RecallNeverAborts ==
    \A i \in DOMAIN trace :
        trace[i].node = "retrieve" =>
            /\ ~trace[i].ext.raised
            /\ "memory_context" \in DOMAIN trace[i].out

(***************************************************************************)
(* C24: whatever fails among the classifier call, the query expansion, the *)
(* single searches, the page fetches and the relevance extractions, no     *)
(* exception leaves the router, search or scrape stage: the failure        *)
(* becomes needs_search = false, the query list [user_query], no results   *)
(* for that search, a page result with error set and empty content; and    *)
(* the turn reaches the coordinator stage, which produces final_messages.  *)
(***************************************************************************)
SafeDefaults ==
    \A i \in DOMAIN trace :
        /\ (trace[i].node = "router" /\ trace[i].ext.raises
                /\ FindUrls(trace[i].in["user_query"]) = <<>>) =>
              trace[i].out["needs_search"] = FALSE
        /\ (trace[i].node = "search" /\ trace[i].ext.expand.raises) =>
              trace[i].out["search_queries"] = << trace[i].in["user_query"] >>
        /\ trace[i].node = "search" =>
              \A k \in DOMAIN trace[i].out["search_results"] :
                 \E q \in DOMAIN trace[i].ext.searches :
                    /\ ~trace[i].ext.searches[q].raises
                    /\ \E j \in DOMAIN trace[i].ext.searches[q].results :
                          trace[i].ext.searches[q].results[j].href
                              = trace[i].out["search_results"][k].url
        /\ trace[i].node = "scrape" =>
              /\ \A u \in DOMAIN trace[i].ext.site :
                    trace[i].ext.site[u].kind # "ok" =>
                       /\ scrape_url(u, trace[i].ext.site[u]).error # None
                       /\ scrape_url(u, trace[i].ext.site[u]).content = <<>>
              /\ "web_context" \in DOMAIN trace[i].out
        /\ (trace[i].node = "coordinator") => "final_messages" \in DOMAIN trace[i].out

\* the stages run so far are a prefix of the path retrieve, router, search,
\* scrape, coordinator (search or search and scrape skipped as routed)
StagesInOrder ==
    /\ \A i \in DOMAIN trace :
          trace[i].node \in {"retrieve", "router", "search", "scrape", "coordinator"}
    /\ \A i \in DOMAIN trace : i > 1 =>
          <<trace[i - 1].node, trace[i].node>>
              \in { <<"retrieve", "router">>, <<"router", "search">>,
                    <<"router", "scrape">>, <<"router", "coordinator">>,
                    <<"search", "scrape">>, <<"scrape", "coordinator">> }

\* SafeDefaults holds of every stage that ran; a turn that is not over has a
\* stage that can run whatever the outcomes of its calls were (no stage is
\* left by an exception, so the turn does not stop short of END); and a turn
\* that is over ran the coordinator last
C24_FailuresDegrade ==
    /\ SafeDefaults
    /\ StagesInOrder
    /\ pc # "END" => ENABLED Next
    /\ pc = "END" => trace # <<>> /\ trace[Len(trace)].node = "coordinator"

\* a turn in which the query expansion, every search and so every fetch failed
\* reached the coordinator
C24_Witness ==
    /\ pc = "END"
    /\ \E i \in DOMAIN trace :
          /\ trace[i].node = "search"
          /\ trace[i].ext.expand.raises
          /\ \A q \in DOMAIN trace[i].ext.searches : trace[i].ext.searches[q].raises
    /\ "final_messages" \in DOMAIN trace[Len(trace)].out

\* a turn in which fetches failed and an extraction raised reached the coordinator
C24_WitnessScrape ==
    /\ pc = "END"
    /\ \E i \in DOMAIN trace :
          /\ trace[i].node = "scrape"
          /\ \E u \in DOMAIN trace[i].ext.site : trace[i].ext.site[u].kind = "timeout"
          /\ \E k \in DOMAIN trace[i].ext.extracts : trace[i].ext.extracts[k].raises
    /\ "final_messages" \in DOMAIN trace[Len(trace)].out

(***************************************************************************)
(* SpecTools: ToolRegistry.call_tool over the tools of the loaded plugins. *)
(* A tool is its name, the identity of its handler and what the handler    *)
(* does when awaited: it raises, or returns a value made from its          *)
(* arguments.                                                              *)
(***************************************************************************)
MaxTools == 3

ToolNames == { <<"t", "1">>, <<"t", "2">> }

\* the tool lists of at most MaxTools tools; the n-th tool's handler is n
RegisteredTools ==
    UNION { [1..n -> ToolNames \X BOOLEAN] : n \in 0..MaxTools }

ToolOf(spec, n) == [name |-> spec[n][1], handler |-> n, raises |-> spec[n][2]]

\* the tools of spec from position from on
ToolsFrom(spec, from) ==
    [k \in 1..(IF Len(spec) < from THEN 0 ELSE Len(spec) - from + 1) |->
        ToolOf(spec, from + k - 1)]

\* three ways the same tools are spread over plugins and their agents
PluginLayouts(spec) ==
    { << [tools |-> ToolsFrom(spec, 1), agents |-> <<>>] >>,
      << [tools |-> SubSeq(ToolsFrom(spec, 1), 1, IF spec = <<>> THEN 0 ELSE 1),
          agents |-> << [tools |-> ToolsFrom(spec, 2)] >>] >>,
      << [tools |-> <<>>,
          agents |-> << [tools |-> <<>>],
                        [tools |-> SubSeq(ToolsFrom(spec, 1), 1,
                                          IF spec = <<>> THEN 0 ELSE 1)] >>],
         [tools |-> ToolsFrom(spec, 3), agents |-> << [tools |-> ToolsFrom(spec, 2)] >>] >> }

\* PluginManager.get_all_tools: per plugin, its tools, then the tools of its agents
RECURSIVE AgentTools(_)
AgentTools(agents) ==
    IF agents = <<>> THEN <<>> ELSE Head(agents).tools \o AgentTools(Tail(agents))

RECURSIVE get_all_tools(_)
get_all_tools(plugins) ==
    IF plugins = <<>> THEN <<>>
    ELSE With(plugins, LAMBDA ps :
            Head(ps).tools \o AgentTools(Head(ps).agents) \o get_all_tools(Tail(ps)))

\* await tool.handler(arguments)
Handler(tool, arguments) ==
    IF tool.raises
    THEN [raises |-> TRUE, ret |-> None, error |-> <<"b", "o", "o", "m">>,
          calls |-> << <<tool.handler, arguments>> >>]
    ELSE [raises |-> FALSE, ret |-> [by |-> tool.handler, arguments |-> arguments],
          error |-> None, calls |-> << <<tool.handler, arguments>> >>]

ToolNotFound(name) ==
    <<"T", "o", "o", "l", " ">> \o name \o <<" ", "n", "o", "t", " ", "f", "o", "u", "n", "d">>

\* the loop as it would be if a later tool of the same name replaced an earlier one
RECURSIVE CallLastMatch(_, _, _, _)
CallLastMatch(tools, k, name, arguments) ==
    IF k < 1
    THEN [raises |-> TRUE, ret |-> None, error |-> ToolNotFound(name), calls |-> <<>>]
    ELSE IF tools[k].name = name THEN Handler(tools[k], arguments)
    ELSE CallLastMatch(tools, k - 1, name, arguments)

call_tool_last_match(plugins, name, arguments) ==
    With(get_all_tools(plugins), LAMBDA tools :
        CallLastMatch(tools, Len(tools), name, arguments))

\* the for loop of call_tool from the k-th tool on, and the raise after it
RECURSIVE CallFrom(_, _, _, _)
CallFrom(tools, k, name, arguments) ==
    IF k > Len(tools)
    THEN [raises |-> TRUE, ret |-> None, error |-> ToolNotFound(name), calls |-> <<>>]
    ELSE IF tools[k].name = name THEN Handler(tools[k], arguments)
    ELSE CallFrom(tools, k + 1, name, arguments)

call_tool(plugins, name, arguments) ==
    With(get_all_tools(plugins), LAMBDA tools : CallFrom(tools, 1, name, arguments))

CalledNames == ToolNames \cup { <<"t", "3">> }

ToolArguments == { EmptyDict, Put(EmptyDict, "key", "value") }

ToolsInit ==
    /\ state \in { [plugins |-> p, name |-> n, arguments |-> a] :
                      p \in UNION {PluginLayouts(spec) : spec \in RegisteredTools},
                      n \in CalledNames, a \in ToolArguments }
    /\ pc = "call_tool"
    /\ trace = <<>>

CallTool ==
    /\ pc = "call_tool"
    /\ \E r \in {call_tool(state.plugins, state.name, state.arguments)} :
          /\ trace' = Append(trace, [node |-> "call_tool", in |-> state, out |-> r])
          /\ pc' = IF r.raises THEN "raised" ELSE "returned"
    /\ UNCHANGED state

SpecTools == ToolsInit /\ [][CallTool]_vars

\* where a tool is registered: <<plugin, 0, n>> for the n-th tool of the plugin
\* itself, <<plugin, agent, n>> for the n-th tool of one of its agents
Registrations(plugins) ==
    { <<p, 0, n>> : p \in DOMAIN plugins, n \in 1..MaxTools }
        \cup { <<p, a, n>> : p \in DOMAIN plugins, a \in 1..MaxTools, n \in 1..MaxTools }

IsRegistered(plugins, at) ==
    /\ at \in Registrations(plugins)
    /\ IF at[2] = 0 THEN at[3] \in DOMAIN plugins[at[1]].tools
       ELSE /\ at[2] \in DOMAIN plugins[at[1]].agents
            /\ at[3] \in DOMAIN plugins[at[1]].agents[at[2]].tools

RegisteredAt(plugins, at) ==
    IF at[2] = 0 THEN plugins[at[1]].tools[at[3]]
    ELSE plugins[at[1]].agents[at[2]].tools[at[3]]

Earlier(x, y) ==
    \/ x[1] < y[1]
    \/ x[1] = y[1] /\ x[2] < y[2]
    \/ x[1] = y[1] /\ x[2] = y[2] /\ x[3] < y[3]

Named(plugins, name) ==
    { at \in Registrations(plugins) :
         IsRegistered(plugins, at) /\ RegisteredAt(plugins, at).name = name }

(***************************************************************************)
(* C26: call_tool(name, arguments) awaits exactly once the handler of the  *)
(* first registered tool whose name equals name, with exactly the given    *)
(* arguments, and no other handler; its outcome is that handler's (the     *)
(* value it returns, or the exception it raises). If no registered tool    *)
(* has that name it raises the not-found error and awaits no handler.      *)
(***************************************************************************)
C26_FirstMatchOnly ==
    \A i \in DOMAIN trace :
        trace[i].node = "call_tool" =>
            LET in == trace[i].in
                out == trace[i].out
                named == Named(in.plugins, in.name)
            IN IF named = {}
               THEN /\ out.raises
                    /\ out.error = ToolNotFound(in.name)
                    /\ out.calls = <<>>
               ELSE LET first == CHOOSE at \in named :
                                    \A other \in named \ {at} : Earlier(at, other)
                        tool == RegisteredAt(in.plugins, first)
                    IN /\ out.calls = << <<tool.handler, in.arguments>> >>
                       /\ out.raises = tool.raises
                       /\ ~tool.raises =>
                             out.ret = [by |-> tool.handler, arguments |-> in.arguments]
                       /\ tool.raises => out.error # ToolNotFound(in.name)

\* of two tools of the called name, in an agent of the first plugin and in the
\* second plugin, the one of the agent answered
C26_Witness ==
    /\ pc = "returned"
    /\ Len(state.plugins) = 2
    /\ Cardinality(Named(state.plugins, state.name)) = 2
    /\ state.arguments # EmptyDict
    /\ trace[1].out.ret.arguments = state.arguments

\* no tool of the called name among three: the error, and no handler awaited
C26_WitnessNotFound ==
    /\ pc = "raised"
    /\ Len(get_all_tools(state.plugins)) = 3
    /\ Named(state.plugins, state.name) = {}
    /\ trace[1].out.calls = <<>>

(***************************************************************************)
(* json.loads on the texts a model reply can be here: objects whose keys   *)
(* are strings and whose values are strings or objects, strings without    *)
(* escapes. A value is tagged with its Python type. The outcome is the     *)
(* value, or JSONDecodeError.                                              *)
(***************************************************************************)
JStr(text) == [type |-> "str", str |-> text]

JDict(d) == [type |-> "dict", dict |-> d]

NoParse == [ok |-> FALSE, value |-> None, next |-> 0]

Parsed(value, next) == [ok |-> TRUE, value |-> value, next |-> next]

\* the first position >= i of s that holds no whitespace, Len(s) + 1 when none
SkipSpace(s, i) ==
    CHOOSE j \in i..(Len(s) + 1) :
        /\ j = Len(s) + 1 \/ ~IsSpace(s[j])
        /\ \A k \in i..(j - 1) : IsSpace(s[k])

\* a string starts at i: up to the next quote, no control character inside
ParseString(s, i) ==
    IF i <= Len(s) /\ s[i] = "\"" /\ \E j \in (i + 1)..Len(s) : s[j] = "\""
    THEN With(CHOOSE j \in (i + 1)..Len(s) :
                    s[j] = "\"" /\ \A k \in (i + 1)..(j - 1) : s[k] # "\"",
              LAMBDA j :
                  IF \E k \in (i + 1)..(j - 1) : s[k] \in {"\n", "\t"}
                  THEN NoParse
                  ELSE Parsed(JStr(SubSeq(s, i + 1, j - 1)), j + 1))
    ELSE NoParse

RECURSIVE ParseValue(_, _)
RECURSIVE ParseMembers(_, _, _)
\* the members of an object from position i on, those before them in members;
\* a key given twice keeps its last value
ParseMembers(s, i, members) ==
    With(ParseString(s, i), LAMBDA key :
        IF ~key.ok THEN NoParse
        ELSE With(SkipSpace(s, key.next), LAMBDA colon :
            IF colon > Len(s) \/ s[colon] # ":" THEN NoParse
            ELSE With(ParseValue(s, SkipSpace(s, colon + 1)), LAMBDA v :
                IF ~v.ok THEN NoParse
                ELSE With(<<SkipSpace(s, v.next), Put(members, key.value.str, v.value)>>,
                          LAMBDA a :
                    IF a[1] > Len(s) THEN NoParse
                    ELSE IF s[a[1]] = "}" THEN Parsed(JDict(a[2]), a[1] + 1)
                    ELSE IF s[a[1]] = ","
                         THEN ParseMembers(s, SkipSpace(s, a[1] + 1), a[2])
                    ELSE NoParse))))

ParseValue(s, i) ==
    IF i > Len(s) THEN NoParse
    ELSE IF s[i] = "\"" THEN ParseString(s, i)
    ELSE IF s[i] = "{"
         THEN With(SkipSpace(s, i + 1), LAMBDA j :
                 IF j <= Len(s) /\ s[j] = "}" THEN Parsed(JDict(EmptyDict), j + 1)
                 ELSE ParseMembers(s, j, EmptyDict))
    ELSE NoParse

\* json.loads(text): [ok |-> TRUE, value |-> the object] or JSONDecodeError
json_loads(text) ==
    With(text, LAMBDA s :
        With(ParseValue(s, SkipSpace(s, 1)), LAMBDA v :
            IF v.ok /\ SkipSpace(s, v.next) = Len(s) + 1
            THEN [ok |-> TRUE, value |-> v.value]
            ELSE [ok |-> FALSE, value |-> None]))

(***************************************************************************)
(* SpecAgent: CoordinatorAgent.run_stream, one turn: the history and its   *)
(* summary, the user message, then the loop of at most five model replies, *)
(* each streamed, recognised as a tool call or not, and acted on.          *)
(***************************************************************************)
\* settings.MAX_HISTORY_TOKENS is 4000; the histories here are short, so the
\* ceiling is scaled down to one token (four characters)
MAX_HISTORY_TOKENS == 1

MaxRounds == 5

TOOL == <<"t", "o", "o", "l">>

ARGUMENTS == <<"a", "r", "g", "u", "m", "e", "n", "t", "s">>

SUMMARY_PREFIX ==
    <<"P","r","e","v","i","o","u","s"," ","c","o","n","v","e","r","s","a","t","i","o","n",
      " ","s","u","m","m","a","r","y",":"," ">>

ERROR_CALLING ==
    <<"E","r","r","o","r"," ","c","a","l","l","i","n","g"," ","t","o","o","l",":"," ">>

Message(role, content) == [role |-> role, content |-> content]

\* f"Tool '{tool_name}' output: {result_str}"
ToolOutput(tool_name, result_str) ==
    [template |-> "Tool '{tool_name}' output: {result_str}",
     tool_name |-> tool_name, result_str |-> result_str]

\* the system prompt: the fixed text, the tool list and the project context
FullSystemPrompt(tools, project_context) ==
    [system_prompt |-> "coordinator", tools |-> tools, project_context |-> project_context]

\* ToolRegistry.list_tools
list_tools(plugins) ==
    With(get_all_tools(plugins), LAMBDA tools : [k \in DOMAIN tools |-> tools[k].name])

RECURSIVE JoinContents(_)
JoinContents(history) ==
    IF history = <<>> THEN <<>>
    ELSE With(history, LAMBDA h : Head(h).content \o JoinContents(Tail(h)))

\* run_stream up to the loop; sum is the outcome of summarizer.summarize
BeforeLoop(s, sum) ==
    With(s.stored, LAMBDA db_messages :
        LET approx_chars == Len(JoinContents(db_messages))
            too_long == approx_chars > 4 * MAX_HISTORY_TOKENS
        IN IF too_long /\ sum.raises
           THEN [raises |-> TRUE, stored |-> db_messages, messages |-> <<>>,
                 calls |-> << "summarize" >>]
           ELSE With(IF too_long
                     THEN << Message("system", SUMMARY_PREFIX \o sum.ret) >>
                     ELSE db_messages,
                     LAMBDA history :
                       [raises |-> FALSE,
                        stored |-> Append(history, Message("user", s.user_input)),
                        messages |-> << Message("system",
                                                FullSystemPrompt(list_tools(s.plugins),
                                                                 s.project_context)) >>
                                       \o Append(history, Message("user", s.user_input)),
                        calls |-> IF too_long THEN << "summarize" >> ELSE <<>>]))

\* the async for over the chunks of one reply, from the k-th chunk on
RECURSIVE ReadChunks(_, _, _, _, _)
ReadChunks(chunks, k, tool_buffer, is_tool_call, yielded) ==
    IF k > Len(chunks)
    THEN [full_response |-> tool_buffer, is_tool_call |-> is_tool_call, yielded |-> yielded]
    ELSE With(<<tool_buffer \o Get(chunks[k], "content", <<>>),
                Get(chunks[k], "content", <<>>)>>, LAMBDA a :
            With(is_tool_call \/ (Strip(a[1]) # <<>> /\ Strip(a[1])[1] = "{"), LAMBDA tc :
                ReadChunks(chunks, k + 1, a[1], tc,
                           IF ~tc THEN Append(yielded, a[2]) ELSE yielded)))

\* one pass of the for loop on the reply the model streams: the messages after
\* it, what it yielded, what it stored, and whether it left the loop
Round(messages, chunks, plugins) ==
    With(ReadChunks(chunks, 1, <<>>, FALSE, <<>>), LAMBDA read :
    With(Append(messages, Message("assistant", read.full_response)), LAMBDA answered :
        LET full_response == read.full_response
            final == [messages |-> answered, yielded |-> read.yielded,
                      saved |-> << Message("assistant", full_response) >>,
                      break |-> TRUE, executed |-> FALSE, raised |-> FALSE, calls |-> <<>>]
        IN IF ~read.is_tool_call THEN final
           ELSE With(json_loads(full_response), LAMBDA action :
                   IF ~action.ok
                   THEN [final EXCEPT !.yielded = Append(read.yielded, full_response)]
                   ELSE IF TOOL \notin DOMAIN action.value.dict THEN final
                   ELSE With(<<action.value.dict[TOOL].str,
                               Get(action.value.dict, ARGUMENTS, JDict(EmptyDict))>>,
                             LAMBDA t :
                          With(call_tool(plugins, t[1], t[2]), LAMBDA result :
                             [messages |->
                                  Append(answered,
                                         Message("user",
                                                 ToolOutput(t[1],
                                                     IF result.raises
                                                     THEN ERROR_CALLING \o result.error
                                                     ELSE [str |-> result.ret]))),
                              yielded |-> read.yielded,
                              saved |-> <<>>,
                              break |-> FALSE, executed |-> TRUE,
                              raised |-> result.raises, calls |-> result.calls])))))

Chunk(content) == Put(EmptyDict, "content", content)

\* a line of the model server as OllamaClient.chat_stream yields it
ClientChunk(content) == Put(EmptyDict, "message", Message("assistant", content))

DoneChunk == Put(EmptyDict, "done", TRUE)

Quoted(text) == <<"\"">> \o text \o <<"\"">>

ToolCallText(name) == <<"{">> \o Quoted(TOOL) \o <<":", " ">> \o Quoted(name) \o <<"}">>

ToolCallWithArguments(name) ==
    <<"{">> \o Quoted(TOOL) \o <<":", " ">> \o Quoted(name) \o <<",", " ">>
        \o Quoted(ARGUMENTS) \o <<":", " ", "{">> \o Quoted(<<"k">>) \o <<":">>
        \o Quoted(<<"v">>) \o <<"}", "}">>

\* replies that ask for a tool: t1 returns, t2 raises, t3 is not registered
ToolReplies ==
    { << Chunk(<<"{">>), Chunk(Tail(ToolCallWithArguments(<<"t", "1">>))) >>,
      << Chunk(ToolCallWithArguments(<<"t", "2">>)) >>,
      << Chunk(ToolCallText(<<"t", "3">>)), DoneChunk >>,
      << Chunk(<<"\n">>), Chunk(ToolCallText(<<"t", "2">>)) >> }

\* replies that ask for no tool
TextReplies ==
    { << Chunk(<<"h", "i">>), Chunk(<<>>), Chunk(<<"!">>), DoneChunk >>,
      << Chunk(<<"{">> \o Quoted(<<"a">>) \o <<":">> \o Quoted(<<"b">>) \o <<"}">>) >>,
      << Chunk(<<"{", "o", "o", "p", "s">>) >>,
      << Chunk(<<" ">>), Chunk(<<"{", "o", "o", "p", "s">>) >>,
      << ClientChunk(<<"h", "i">>), Put(ClientChunk(<<>>), "done", TRUE) >> }

ModelReplies == ToolReplies \cup TextReplies

AgentPlugins ==
    << [tools |-> << [name |-> <<"t", "1">>, handler |-> 1, raises |-> FALSE] >>,
        agents |-> << [tools |-> << [name |-> <<"t", "2">>, handler |-> 2,
                                    raises |-> TRUE] >>] >>] >>

StoredHistories ==
    { <<>>,
      << Message("user", <<"a">>), Message("assistant", <<"b">>) >>,
      << Message("user", <<"l", "o", "n", "g">>), Message("assistant", <<"e", "r">>) >> }

SummaryOutcomes == { [raises |-> TRUE, ret |-> <<>>], [raises |-> FALSE, ret |-> <<"S">>] }

AgentInit ==
    /\ state \in { [session_id |-> "s1", user_input |-> <<"q">>, project_context |-> c,
                    plugins |-> AgentPlugins, stored |-> h, messages |-> <<>>,
                    yielded |-> <<>>, rounds |-> 0] :
                      c \in {<<>>, <<"P">>}, h \in StoredHistories }
    /\ pc = "begin"
    /\ trace = <<>>

AgentBegin ==
    /\ pc = "begin"
    /\ \E sum \in SummaryOutcomes :
          \E b \in {BeforeLoop(state, sum)} :
             /\ state' = [state EXCEPT !.stored = b.stored, !.messages = b.messages]
             /\ trace' = Append(trace, [node |-> "begin", in |-> state, out |-> b])
             /\ pc' = IF b.raises THEN "raised" ELSE "loop"

AgentRound ==
    /\ pc = "loop"
    /\ state.rounds < MaxRounds
    /\ \E chunks \in ModelReplies :
          \E r \in {Round(state.messages, chunks, state.plugins)} :
             /\ state' = [state EXCEPT !.messages = r.messages,
                                       !.yielded = state.yielded \o r.yielded,
                                       !.stored = state.stored \o r.saved,
                                       !.rounds = state.rounds + 1]
             /\ trace' = Append(trace, [node |-> "round", in |-> state,
                                        chunks |-> chunks, out |-> r])
             /\ pc' = IF r.break THEN "done"
                      ELSE IF state.rounds + 1 = MaxRounds THEN "exhausted"
                      ELSE "loop"

AgentNext == AgentBegin \/ AgentRound

SpecAgent == AgentInit /\ [][AgentNext]_vars

\* what the model said in a reply: the content of its chunks, in either shape
RECURSIVE Said(_)
Said(chunks) ==
    IF chunks = <<>> THEN <<>>
    ELSE (IF "content" \in DOMAIN Head(chunks) THEN Head(chunks)["content"]
          ELSE IF "message" \in DOMAIN Head(chunks) THEN Head(chunks)["message"].content
          ELSE <<>>) \o Said(Tail(chunks))

(***************************************************************************)
(* C27: when the tool call the model asked for raises (the not-found error *)
(* of an unknown name included), the turn does not fail: the error text is *)
(* appended to the conversation as the tool's output message, nothing of   *)
(* the tool-call reply or of the error is streamed to the user, and the    *)
(* model is prompted again with the extended conversation.                 *)
(***************************************************************************)
C27_ToolErrorFedBack ==
    \A i \in DOMAIN trace :
        (trace[i].node = "round" /\ trace[i].out.executed /\ trace[i].out.raised) =>
            /\ pc # "raised"
            /\ trace[i].out.yielded = <<>>
            /\ Len(trace[i].out.messages) = Len(trace[i].in.messages) + 2
            /\ trace[i].out.messages[Len(trace[i].out.messages)].role = "user"
            /\ SubSeq(trace[i].out.messages[Len(trace[i].out.messages)].content.result_str,
                      1, Len(ERROR_CALLING)) = ERROR_CALLING
            /\ IF i < Len(trace)
               THEN trace[i + 1].node = "round"
                    /\ trace[i + 1].in.messages = trace[i].out.messages
               ELSE pc = "loop"

(***************************************************************************)
(* C28: a model reply that is not executed as a tool call (plain text,     *)
(* text that starts with "{" but is not valid JSON, valid JSON without a   *)
(* "tool" key) is the plain-text answer: the chunks yielded to the user    *)
(* concatenate to exactly that reply, it is persisted as the assistant     *)
(* message, and the loop ends.                                             *)
(***************************************************************************)
C28_ReplyIsTheAnswer ==
    \A i \in DOMAIN trace :
        (trace[i].node = "round" /\ ~trace[i].out.executed) =>
            /\ Join(trace[i].out.yielded) = Said(trace[i].chunks)
            /\ trace[i].out.saved = << Message("assistant", Said(trace[i].chunks)) >>
            /\ i = Len(trace)
            /\ pc = "done"

(***************************************************************************)
(* SpecProfile: UserProfileManager.update_profile. The file is its text;   *)
(* each pass of the retry loop is one step, on the outcome of llm.chat.    *)
(***************************************************************************)
max_retries == 3

PROFILE_HEADER == <<"#", " ", "U", "s", "e", "r", " ", "P", "r", "o", "f", "i", "l", "e">>

NO_UPDATE == <<"N", "O", "_", "U", "P", "D", "A", "T", "E">>

\* the pass as it would be without the test for the header
OnReplyUnchecked(file, outcome) ==
    IF outcome.raises THEN [file |-> file, returns |-> FALSE]
    ELSE With(Strip(Get(outcome.msg, "content", <<>>)), LAMBDA new_content :
            IF new_content = NO_UPDATE THEN [file |-> file, returns |-> TRUE]
            ELSE [file |-> new_content, returns |-> TRUE])

\* the body of the for loop: the file after it, and whether update_profile returns
OnReply(file, outcome) ==
    IF outcome.raises THEN [file |-> file, returns |-> FALSE]
    ELSE With(Strip(Get(outcome.msg, "content", <<>>)), LAMBDA new_content :
            IF new_content = NO_UPDATE THEN [file |-> file, returns |-> TRUE]
            ELSE IF Contains(new_content, PROFILE_HEADER)
                 THEN [file |-> new_content, returns |-> TRUE]
            ELSE [file |-> file, returns |-> FALSE])

ProfileFiles ==
    { PROFILE_HEADER \o <<"\n">>, PROFILE_HEADER \o <<"\n", "-", " ", "A", "n", "n", "\n">> }

ProfileReplies ==
    { ReplyRaises,
      ReplyNoContent,
      Reply(NO_UPDATE),
      Reply(<<" ">> \o NO_UPDATE \o <<"\n">>),
      Reply(NO_UPDATE \o <<".">>),
      Reply(<<"h", "i">>),
      Reply(Lower(PROFILE_HEADER)),
      Reply(<<"\n">> \o PROFILE_HEADER \o <<"\n", "-", " ", "B", "o", "\n">>),
      Reply(<<"o", "k", ":", "\n">> \o PROFILE_HEADER) }

ProfileInit ==
    /\ state \in { [file |-> f, user_input |-> <<"q">>, attempts |-> 0] : f \in ProfileFiles }
    /\ pc = "attempt"
    /\ trace = <<>>

ProfileAttempt ==
    /\ pc = "attempt"
    /\ state.attempts < max_retries
    /\ \E outcome \in ProfileReplies :
          \E r \in {OnReply(state.file, outcome)} :
             /\ state' = [state EXCEPT !.file = r.file, !.attempts = state.attempts + 1]
             /\ trace' = Append(trace, [node |-> "chat", in |-> state,
                                        reply |-> outcome, out |-> r])
             /\ pc' = IF r.returns \/ state.attempts + 1 = max_retries
                      THEN "returned" ELSE "attempt"

SpecProfile == ProfileInit /\ [][ProfileAttempt]_vars

\* what the reply of a call says, "" when the call raised or sent no content
ReplyText(reply) ==
    IF reply.raises \/ "content" \notin DOMAIN reply.msg THEN <<>> ELSE reply.msg["content"]

HasHeader(reply) ==
    \E i \in 1..Len(ReplyText(reply)) :
        /\ i + Len(PROFILE_HEADER) - 1 <= Len(ReplyText(reply))
        /\ \A k \in 1..Len(PROFILE_HEADER) : ReplyText(reply)[i + k - 1] = PROFILE_HEADER[k]

SaysNoUpdate(reply) == Strip(ReplyText(reply)) = NO_UPDATE

(***************************************************************************)
(* C29: update_profile changes the profile file only by overwriting it     *)
(* with a model reply that contains the header "# User Profile"; when the  *)
(* reply is NO_UPDATE, when every reply lacks the header, or when every    *)
(* call raises, the file is as it was; the model is called at most 3 times *)
(* and never again after the first NO_UPDATE or accepted reply.            *)
(***************************************************************************)
C29_ProfileOnlyByAcceptedReply ==
    /\ Len(trace) <= 3
    /\ \A i \in DOMAIN trace :
          /\ trace[i].out.file # trace[i].in.file =>
                /\ HasHeader(trace[i].reply)
                /\ trace[i].out.file = Strip(ReplyText(trace[i].reply))
          /\ (SaysNoUpdate(trace[i].reply) \/ ~HasHeader(trace[i].reply)) =>
                trace[i].out.file = trace[i].in.file
          /\ (SaysNoUpdate(trace[i].reply) \/ HasHeader(trace[i].reply)) =>
                i = Len(trace) /\ pc = "returned"
          /\ i > 1 => trace[i].in.file = trace[1].in.file
    /\ (trace # <<>> /\ \A i \in DOMAIN trace : ~HasHeader(trace[i].reply)) =>
          state.file = trace[1].in.file

\* after a call that raised and a reply without the header, the third reply
\* was accepted and is the file
C29_Witness ==
    /\ pc = "returned"
    /\ Len(trace) = 3
    /\ trace[1].reply.raises
    /\ HasHeader(trace[3].reply)
    /\ state.file # trace[1].in.file
    /\ state.file = Strip(ReplyText(trace[3].reply))

\* three replies without the header: three calls, the file as it was
C29_WitnessRejected ==
    /\ pc = "returned"
    /\ Len(trace) = 3
    /\ \A i \in DOMAIN trace : ~trace[i].reply.raises /\ ~HasHeader(trace[i].reply)
    /\ state.file = trace[1].in.file

(***************************************************************************)
(* SpecTwoTurns: two turns through the one MaskWorkflow that get_workflow  *)
(* hands out, their stages interleaved in any order. The workflow object   *)
(* holds the compiled graph; each call of stream builds its initial_state  *)
(* from its own arguments and graph.astream keeps the channels of that     *)
(* call.                                                                   *)
(***************************************************************************)
Turns == {1, 2}

\* the channels a stage would get if the graph kept one set of them for all
\* calls: those of the other call once it has started
ChannelsOfOther(runs, t) == IF runs[3 - t] # EmptyDict THEN runs[3 - t] ELSE runs[t]

\* the channels of the call of graph.astream made for turn t
ChannelsOf(runs, t) == runs[t]

TwoTurnArgs ==
    { << [session_id |-> "s1", user_query |-> <<"q">>, messages |-> Msgs1],
         [session_id |-> s, user_query |-> q,
          messages |-> << DictMsg("user", <<"b">>) >>] >> :
        s \in {"s1", "s2"}, q \in { <<"q">>, <<"s", "e", "e", " ">> \o P1 } }

TwoTurnSearchOutcomes ==
    { [raises |-> TRUE, results |-> <<>>],
      [raises |-> FALSE, results |-> << Raw("T1", P1), Raw("T2", P2) >>] }

TwoTurnsInit ==
    /\ state \in { [workflow |-> [graph |-> "compiled"], args |-> a,
                    runs |-> <<EmptyDict, EmptyDict>>] : a \in TwoTurnArgs }
    /\ pc = <<"stream", "stream">>
    /\ trace = <<>>

\* what a stage of turn t leaves: the channels of its call written, its record
\* in the trace, the stage that is next for this turn
StageDone(t, node, in, r, ext, next) ==
    /\ state' = [state EXCEPT !.runs[t] = WriteChannels(in, r.ret)]
    /\ trace' = Append(trace, [turn |-> t, node |-> node, in |-> in, out |-> r.ret,
                               ext |-> ext])
    /\ pc' = [pc EXCEPT ![t] = next]

\* MaskWorkflow.stream up to the first stage
TurnStream ==
    \E t \in Turns :
       /\ pc[t] = "stream"
       /\ state' = [state EXCEPT !.runs[t] =
                        WriteChannels(EmptyDict,
                                      InitialState(state.args[t].session_id,
                                                   state.args[t].user_query,
                                                   state.args[t].messages))]
       /\ pc' = [pc EXCEPT ![t] = "retrieve"]
       /\ UNCHANGED trace

TurnRetrieve ==
    \E t \in Turns :
       /\ pc[t] = "retrieve"
       /\ \E in \in {ChannelsOf(state.runs, t)} :
             \E r \in {retrieve_node(in, <<"m">>, <<>>)} :
                StageDone(t, "retrieve", in, r, [rag |-> <<"m">>, graph |-> <<>>], "router")

TurnRouter ==
    \E t \in Turns :
       /\ pc[t] = "router"
       /\ \E in \in {ChannelsOf(state.runs, t)} :
             \E cls \in {ReplyRaises, Reply(YES)} :
                \E r \in {router_node(in, cls)} :
                   StageDone(t, "router", in, r, cls,
                             should_search(WriteChannels(in, r.ret)))

TurnSearch ==
    \E t \in Turns :
       /\ pc[t] = "search"
       /\ \E in \in {ChannelsOf(state.runs, t)} :
             \E queries \in {extract_search_queries(in["user_query"], ReplyRaises)} :
                \E outcomes \in [DOMAIN queries -> TwoTurnSearchOutcomes] :
                   \E r \in {search_node(in, ReplyRaises, outcomes)} :
                      StageDone(t, "search", in, r,
                                [expand |-> ReplyRaises, searches |-> outcomes], "scrape")

TurnScrape ==
    \E t \in Turns :
       /\ pc[t] = "scrape"
       /\ \E in \in {ChannelsOf(state.runs, t)} :
             \E scraped \in {ScrapeAll(in, SiteUp).ret} :
                \E extracts \in {[k \in DOMAIN scraped |-> Reply(<<"o", "k">>)]} :
                   \E r \in {scrape_node(in, SiteUp, extracts)} :
                      StageDone(t, "scrape", in, r,
                                [site |-> SiteUp, extracts |-> extracts], "coordinator")

TurnCoordinator ==
    \E t \in Turns :
       /\ pc[t] = "coordinator"
       /\ \E in \in {ChannelsOf(state.runs, t)} :
             \E r \in {coordinator_node(in, <<>>)} :
                StageDone(t, "coordinator", in, r, [tools |-> <<>>], "END")

TwoTurnsNext ==
    TurnStream \/ TurnRetrieve \/ TurnRouter \/ TurnSearch \/ TurnScrape \/ TurnCoordinator

SpecTwoTurns == TwoTurnsInit /\ [][TwoTurnsNext]_vars

\* the records of turn t, in order
StagesOf(t) == SelectSeq(trace, LAMBDA e : e.turn = t)

\* what a stage returns for the channels and the external replies of a record
Returns(e, channels) ==
    CASE e.node = "retrieve" -> retrieve_node(channels, e.ext.rag, e.ext.graph).ret
      [] e.node = "router" -> router_node(channels, e.ext).ret
      [] e.node = "search" -> search_node(channels, e.ext.expand, e.ext.searches).ret
      [] e.node = "scrape" -> scrape_node(channels, e.ext.site, e.ext.extracts).ret
      [] e.node = "coordinator" -> coordinator_node(channels, e.ext.tools).ret

\* the turn run alone: from channels on, the stages of the records es against
\* the external replies they saw; TRUE when every stage returns what its record holds
RECURSIVE AloneAgrees(_, _)
AloneAgrees(channels, es) ==
    IF es = <<>> THEN TRUE
    ELSE With(<<channels, Head(es)>>, LAMBDA a :
            With(Returns(a[2], a[1]), LAMBDA ret :
                /\ a[2].in = a[1]
                /\ a[2].out = ret
                /\ AloneAgrees(WriteChannels(a[1], ret), Tail(es))))

\* the channels a turn ends with when run alone from channels on
RECURSIVE AloneEnds(_, _)
AloneEnds(channels, es) ==
    IF es = <<>> THEN channels
    ELSE With(<<channels, Head(es)>>, LAMBDA a :
            AloneEnds(WriteChannels(a[1], Returns(a[2], a[1])), Tail(es)))

OwnInitialState(t) ==
    WriteChannels(EmptyDict,
                  InitialState(state.args[t].session_id, state.args[t].user_query,
                               state.args[t].messages))

ByRule(url, k, direct_scrape, site) ==
    IF is_docs(url) /\ (k = 1 \/ direct_scrape)
    THEN << <<"crawl", url>> >> \o crawl(url, 2, 8, site).calls
    ELSE << <<"httpx.get", url>> >>

RECURSIVE HandledByRule(_, _, _, _)
HandledByRule(urls, k, direct_scrape, site) ==
    IF k > Len(urls) THEN <<>>
    ELSE ByRule(urls[k], k, direct_scrape, site)
            \o HandledByRule(urls, k + 1, direct_scrape, site)

\* the crawls and fetches among the calls of a stage
FetchCalls(calls) == SelectSeq(calls, LAMBDA c : c[1] \in {"crawl", "httpx.get"})

CrawlRule ==
    \A i \in DOMAIN trace :
        trace[i].node = "scrape" =>
            FetchCalls(trace[i].calls)
                = HandledByRule(Take(Unique(Get(trace[i].in, "urls_to_scrape", <<>>), {}), 3),
                                1, Get(trace[i].in, "direct_scrape", FALSE) = TRUE,
                                trace[i].ext.site)

\* the URLs the router took from the query when it routed by direct URL
DirectUrls ==
    IF \E i \in DOMAIN trace : /\ trace[i].node = "router"
                               /\ Get(trace[i].out, "direct_scrape", FALSE) = TRUE
    THEN LET i == CHOOSE j \in DOMAIN trace : trace[j].node = "router"
         IN Range(Take(Unique(Get(trace[i].out, "urls_to_scrape", <<>>), {}), 3))
    ELSE {}

Crawled(url) ==
    \E i \in DOMAIN trace :
        /\ trace[i].node = "scrape"
        /\ \E k \in DOMAIN trace[i].calls : trace[i].calls[k] = <<"crawl", url>>

C31_CrawlOrFetch ==
    /\ CrawlRule
    /\ pc = "END" => \A url \in DirectUrls : is_docs(url) => Crawled(url)

(***************************************************************************)
(* C32: a full run of the compiled graph on a query that contains a URL,   *)
(* ending with an empty web_context, has the block that tells the model    *)
(* to apologise that the provided URL could not be read, and not to        *)
(* invent its content, in the system prompt of final_messages.             *)
(***************************************************************************)
C32_UnreadableUrlSaid ==
    (/\ pc = "END"
     /\ FindUrls(state["user_query"]) # <<>>
     /\ Get(state, "web_context", <<>>) = <<>>) =>
        \E i \in DOMAIN trace :
            /\ trace[i].node = "coordinator"
            /\ "could_not_read"
                  \in Range(ContextualIn(trace[i].out["final_messages"][1].content))

(***************************************************************************)
(* C33: crawl is breadth-first by enqueue time. The queue is FIFO, the     *)
(* depths of the returned pages never decrease along the list, every URL   *)
(* is fetched at its minimal link distance from the start URL, and the     *)
(* results of a batch are appended in queue order whichever fetch of the   *)
(* batch completes first.                                                  *)
(***************************************************************************)
\* the entries of a stretch of the queue that a pass takes: those whose URL
\* is neither visited nor taken already
RECURSIVE Fresh(_, _)
Fresh(entries, visited_urls) ==
    IF entries = <<>> THEN <<>>
    ELSE IF Head(entries)[1] \in visited_urls THEN Fresh(Tail(entries), visited_urls)
    ELSE <<Head(entries)>> \o Fresh(Tail(entries), visited_urls \cup {Head(entries)[1]})

\* pass i took its batch from the front of the queue and added at the back
FrontToBack(i) ==
    LET before == trace[i].in.queue
        after == trace[i].out.queue
    IN \E n \in 0..Len(before) :
          /\ trace[i].ext.batch = Fresh(SubSeq(before, 1, n), trace[i].in.visited_urls)
          /\ Len(after) >= Len(before) - n
          /\ SubSeq(after, 1, Len(before) - n) = SubSeq(before, n + 1, Len(before))

\* the links a fetched page hands to the crawl
LinksOf(site, url) ==
    With(scrape_url(url, Fetch(site, url)), LAMBDA item :
        IF Truthy(item.error) THEN {} ELSE Range(item.links))

\* the URLs within k links of the start URL
RECURSIVE Within(_, _, _)
Within(site, start_url, k) ==
    IF k = 0 THEN {start_url}
    ELSE With(Within(site, start_url, k - 1), LAMBDA near :
            near \cup UNION {LinksOf(site, url) : url \in near})

\* the depth at which the page of a URL was fetched
DepthOf(url) ==
    LET n == CHOOSE m \in DOMAIN FetchedEntries : FetchedEntries[m][1] = url
    IN FetchedEntries[n][2]

\* the pages pass i added to the results
AddedBy(i) ==
    SubSeq(trace[i].out.results, Len(trace[i].in.results) + 1, Len(trace[i].out.results))

C33_BreadthFirst ==
    /\ \A i \in DOMAIN trace : FrontToBack(i)
    /\ \A i, j \in DOMAIN state.results :
          i < j => DepthOf(state.results[i].url) <= DepthOf(state.results[j].url)
    /\ \A n \in DOMAIN FetchedEntries :
          /\ FetchedEntries[n][1] \in Within(state.site, state.start_url, FetchedEntries[n][2])
          /\ FetchedEntries[n][2] > 0 =>
                FetchedEntries[n][1]
                    \notin Within(state.site, state.start_url, FetchedEntries[n][2] - 1)
    /\ \A i \in DOMAIN trace :
          [k \in DOMAIN AddedBy(i) |-> AddedBy(i)[k].url]
              = SelectSeq([k \in DOMAIN trace[i].ext.batch |-> trace[i].ext.batch[k][1]],
                          LAMBDA url : \E k \in DOMAIN AddedBy(i) : AddedBy(i)[k].url = url)

\* a crawl reached depth 2, and in one pass the fetch begun last ended first
\* while two pages of the batch were returned
C33_Witness ==
    /\ pc = "done"
    /\ \E n \in DOMAIN FetchedEntries : FetchedEntries[n][2] = 2
    /\ \E i \in DOMAIN trace :
          /\ Len(trace[i].ext.batch) >= 2
          /\ trace[i].ext.completion = Descending(Len(trace[i].ext.batch))
          /\ Len(AddedBy(i)) >= 2

(***************************************************************************)
(* C34: crawl enqueues the same-domain links of a page in the order in     *)
(* which they appear on the page, so the pages it returns under a          *)
(* max_pages cut-off, and their order, are fixed by the site and the       *)
(* fetch outcomes.                                                         *)
(***************************************************************************)
\* the same pages, their links iterated as the documents list them
InDocumentOrder(site) ==
    [u \in DOMAIN site |->
        IF site[u].kind = "ok" THEN [site[u] EXCEPT !.order = 0] ELSE site[u]]

UrlsOf(results) == [k \in DOMAIN results |-> results[k].url]

C34_LinksInPageOrder ==
    /\ \A i \in DOMAIN state.results :
          LET page == Fetch(state.site, state.results[i].url)
          IN page.kind = "ok" =>
                state.results[i].links = InternalLinks(state.results[i].url, page.hrefs)
    /\ pc = "done" =>
          UrlsOf(state.results)
              = UrlsOf(crawl(state.start_url, state.max_depth, state.max_pages,
                             InDocumentOrder(state.site)).ret)

(***************************************************************************)
(* SpecParse: the parsing of one reply line in extract_search_queries, for *)
(* every line made of a list marker (or none) and a text of up to          *)
(* MaxTextLen characters.                                                  *)
(***************************************************************************)
MaxTextLen == 3

LineMarkers ==
    { <<"1", ".", " ">>, <<"1", "2", ".", " ">>, <<"-", " ">>,
      <<>>, <<"x", " ">>, <<".", " ">> }

TextChars == {"a", " ", ".", "-", "*", "\""}

ReplyLines == {m \o t : m \in LineMarkers, t \in SeqsUpTo(TextChars, MaxTextLen)}

ParseInit ==
    /\ state \in {[line |-> line] : line \in ReplyLines}
    /\ pc = "parse"
    /\ trace = <<>>

\* one pass of the loop over the reply lines
ParseStep ==
    /\ pc = "parse"
    /\ trace' = Append(trace, [node |-> "parse", in |-> state.line,
                               out |-> ParseLine(state.line)])
    /\ pc' = "done"
    /\ UNCHANGED state

SpecParse == ParseInit /\ [][ParseStep]_vars

(***************************************************************************)
(* C35: parsing removes only the list marker. A line "<n>. <text>" or      *)
(* "- <text>" gives <text> without the characters * and " and without      *)
(* surrounding whitespace, also when <text> holds '.' or '-'; a line that  *)
(* starts with neither a digit nor '-' gives no query.                     *)
(***************************************************************************)
\* the length of the marker "<n>. " or "- " the line begins with, 0 if none
MarkerLen(line) ==
    IF Len(line) >= 2 /\ line[1] = "-" /\ line[2] = " " THEN 2
    ELSE IF \E k \in 1..(Len(line) - 2) :
               /\ \A j \in 1..k : IsDigit(line[j])
               /\ line[k + 1] = "."
               /\ line[k + 2] = " "
         THEN 2 + CHOOSE k \in 1..(Len(line) - 2) :
                      (\A j \in 1..k : IsDigit(line[j])) /\ line[k + 1] = "."
    ELSE 0

Undecorated(text) == Strip(RemoveChar(RemoveChar(text, "*"), "\""))

C35_OnlyMarkerRemoved ==
    \A i \in DOMAIN trace :
        trace[i].node = "parse" =>
            LET line == trace[i].in
            IN /\ MarkerLen(line) > 0 =>
                     trace[i].out = Undecorated(SubSeq(line, MarkerLen(line) + 1, Len(line)))
               /\ (Undecorated(line) = <<>>
                     \/ ~(IsDigit(Undecorated(line)[1]) \/ Undecorated(line)[1] = "-")) =>
                     trace[i].out = <<>>

(***************************************************************************)
(* C36: when the workflow stream or the streamed model call raises,        *)
(* run_stream does not raise to its caller: it yields one error token, as  *)
(* the last thing it yields, and ends normally; the user message saved     *)
(* before the failure stays saved, and the error text is in no saved       *)
(* assistant message.                                                      *)
(***************************************************************************)
\* the event loop was left through the except clause
StreamFailed ==
    \E i \in DOMAIN trace :
        /\ trace[i].node = "run_stream"
        /\ \/ trace[i].in.raises
           \/ /\ trace[i].in.node_name = "coordinator"
              /\ Get(trace[i].in.node_state, "final_messages", <<>>) # <<>>
              /\ trace[i].ext.raises

C36_FailureSurfaced ==
    StreamFailed =>
        /\ pc \in {"save", "returned"}
        /\ pc = "save" => ENABLED RunStreamNext
        /\ Len(SelectSeq(TokensYielded, LAMBDA y : y = ErrorToken)) = 1
        /\ TokensYielded[Len(TokensYielded)] = ErrorToken
        /\ state.yielded[Len(state.yielded)].type = "token"
        /\ state.saved # <<>>
        /\ state.saved[1] = [role |-> "user", content |-> state.user_input]
        /\ Len(AssistantSaved) <= 1
        /\ \A k \in DOMAIN AssistantSaved :
              ~Contains(AssistantSaved[k].content, ErrorToken.content)

\* the model call raised after one chunk: the turn ended with the user
\* message and the chunk saved, the error token yielded last
C36_Witness ==
    /\ pc = "returned"
    /\ StreamFailed
    /\ state.stream.raises
    /\ Len(state.saved) = 2
    /\ state.saved[2] = [role |-> "assistant", content |-> <<"h">>]
    /\ TokensYielded = << Token(<<"h">>), ErrorToken >>

\* the workflow stream raised after the router's event: nothing but the
\* user message was saved
C36_WitnessWorkflow ==
    /\ pc = "returned"
    /\ Len(state.events) = 2
    /\ state.events[2].raises
    /\ Len(state.yielded) = 2
    /\ Len(state.saved) = 1

(***************************************************************************)
(* C37: after scrape_node no URL occurs twice in scraped_content, nor in   *)
(* sources, also when the crawls of several listed URLs reach the same     *)
(* pages or a crawl reaches another listed URL; no entry of                *)
(* scraped_content has an error set, and sources is no longer than         *)
(* scraped_content.                                                        *)
(***************************************************************************)
NoUrlTwice(entries) ==
    \A j, k \in DOMAIN entries : entries[j].url = entries[k].url => j = k

C37_NoUrlTwice ==
    \A i \in DOMAIN trace :
        trace[i].node = "scrape" =>
            /\ NoUrlTwice(trace[i].out["scraped_content"])
            /\ NoUrlTwice(trace[i].out["sources"])
            /\ \A k \in DOMAIN trace[i].out["scraped_content"] :
                  trace[i].out["scraped_content"][k].error = None
            /\ Len(trace[i].out["sources"]) <= Len(trace[i].out["scraped_content"])

(***************************************************************************)
(* SpecSession: two turns of EnhancedCoordinator.run_stream on one         *)
(* session, interleaved at their awaits. A turn reads the stored messages; *)
(* if they are too long it awaits the summary and then replaces the stored *)
(* messages by it; it adds its user message, runs the workflow, and adds   *)
(* the assistant message. Everything between two awaits is one step.       *)
(***************************************************************************)
UserInputOf(t) == IF t = 1 THEN <<"u", "1">> ELSE <<"u", "2">>

AnswersOf(t) == IF t = 1 THEN { <<>>, <<"a", "1">> } ELSE { <<>>, <<"a", "2">> }

TooLong(history) == Len(JoinContents(history)) > 4 * MAX_HISTORY_TOKENS

\* MemoryManager.add_message
add_message(stored, role, content) == Append(stored, Message(role, content))

\* MemoryManager.update_messages: every stored message of the session is
\* deleted, then the new ones are added
update_messages(stored, messages) == SelectSeq(stored, LAMBDA msg : FALSE) \o messages

SessionInit ==
    /\ state \in { [session_id |-> "s1", initial |-> h, stored |-> h,
                    history |-> << <<>>, <<>> >>] : h \in StoredHistories }
    /\ pc = <<"read", "read">>
    /\ trace = <<>>

SessionStep(t, node, stored, history, calls, ext, next) ==
    /\ state' = [state EXCEPT !.stored = stored, !.history[t] = history]
    /\ trace' = Append(trace, [node |-> node, turn |-> t, in |-> state.stored,
                               out |-> stored, calls |-> calls, ext |-> ext])
    /\ pc' = [pc EXCEPT ![t] = next]

\* steps 1 to 3 up to the first await: the history is read; when it is short
\* the user message is added at once
SessionRead(t) ==
    /\ pc[t] = "read"
    /\ IF TooLong(state.stored)
       THEN SessionStep(t, "read", state.stored, state.stored,
                        << <<"get_messages">>, <<"summarize">> >>, <<>>, "summarize")
       ELSE SessionStep(t, "read", add_message(state.stored, "user", UserInputOf(t)),
                        state.stored,
                        << <<"get_messages">>, <<"add_message", "user", UserInputOf(t)>> >>,
                        <<>>, "workflow")

\* the summary arrives (or the call raises): the stored messages are replaced
\* by the summary message, then the user message is added
SessionSummarized(t) ==
    /\ pc[t] = "summarize"
    /\ \E sum \in SummaryOutcomes :
          IF sum.raises
          THEN SessionStep(t, "summarized", state.stored, state.history[t], <<>>,
                           sum, "raised")
          ELSE \E new_history \in {<< Message("system", SUMMARY_PREFIX \o sum.ret) >>} :
                  SessionStep(t, "summarized",
                              add_message(update_messages(state.stored, new_history),
                                          "user", UserInputOf(t)),
                              state.history[t],
                              << <<"update_messages", new_history>>,
                                 <<"add_message", "user", UserInputOf(t)>> >>,
                              sum, "workflow")

\* steps 4 and 5: the workflow ran, what was accumulated is saved
SessionSave(t) ==
    /\ pc[t] = "workflow"
    /\ \E final_response_accumulator \in AnswersOf(t) :
          \E r \in {SaveAssistantMessage(state.session_id, final_response_accumulator)} :
             SessionStep(t, "save",
                         IF r.calls # <<>>
                         THEN add_message(state.stored, "assistant", r.ret)
                         ELSE state.stored,
                         state.history[t],
                         IF r.calls # <<>>
                         THEN << <<"add_message", "assistant", r.ret>> >> ELSE <<>>,
                         <<>>, "done")

SessionNext == \E t \in Turns : SessionRead(t) \/ SessionSummarized(t) \/ SessionSave(t)

SpecSession == SessionInit /\ [][SessionNext]_vars

(***************************************************************************)
(* C38: when two turns on one session interleave, the summarisation of one *)
(* (all stored messages replaced by one summary message) loses no message  *)
(* the other persisted: at the end of both turns every user or assistant   *)
(* message persisted for the session is still stored or was part of the    *)
(* history a replacing summary was computed from.                          *)
(***************************************************************************)
\* the user and assistant messages persisted for the session
Persisted ==
    Range(state.initial)
        \cup UNION { { Message(c[2], c[3]) :
                         c \in { x \in Range(trace[i].calls) : x[1] = "add_message" } } :
                     i \in DOMAIN trace }

\* the messages of the histories from which the replacing summaries were made
Summarised ==
    UNION { Range(state.history[trace[i].turn]) :
              i \in { j \in DOMAIN trace : /\ trace[j].node = "summarized"
                                           /\ ~trace[j].ext.raises } }

BothEnded == \A t \in Turns : pc[t] \in {"done", "raised"}

C38_NoMessageLost ==
    BothEnded => \A m \in Persisted : m \in Range(state.stored) \/ m \in Summarised

(***************************************************************************)
(* SpecProfiles: the update_profile tasks that two turns start with        *)
(* asyncio.create_task, interleaved at their awaits. A task reads the file *)
(* when it first runs, then awaits the model up to max_retries times; the  *)
(* reply it gets is made from the profile it read. The turn that started   *)
(* it goes on by itself.                                                   *)
(***************************************************************************)
NoteOf(t) == IF t = 1 THEN <<"-", " ", "n", "1", "\n">> ELSE <<"-", " ", "n", "2", "\n">>

\* what the model can answer to the prompt built from current_profile
TaskReplies(current_profile, t) ==
    { ReplyRaises, Reply(NO_UPDATE), Reply(current_profile \o NoteOf(t)) }

\* UserProfileManager.get_profile (the file exists and is readable)
get_profile(file) == SubSeq(file, 1, Len(file))

ProfilesInit ==
    /\ state \in { [file |-> f,
                    turn |-> <<"running", "running">>,
                    current_profile |-> << <<>>, <<>> >>,
                    attempts |-> <<0, 0>>] : f \in ProfileFiles }
    /\ pc = <<"created", "created">>
    /\ trace = <<>>

\* the task runs up to its first await: the profile is read, get_llm awaited
TaskRead(t) ==
    /\ pc[t] = "created"
    /\ \E llm_raises \in BOOLEAN :
          /\ state' = [state EXCEPT !.current_profile[t] = get_profile(state.file)]
          /\ trace' = Append(trace, [node |-> "read", task |-> t, in |-> state.file,
                                     out |-> [file |-> state.file, returns |-> llm_raises],
                                     reply |-> llm_raises])
          /\ pc' = [pc EXCEPT ![t] = IF llm_raises THEN "failed" ELSE "chat"]

\* one pass of the retry loop of the task
TaskAttempt(t) ==
    /\ pc[t] = "chat"
    /\ state.attempts[t] < max_retries
    /\ \E outcome \in TaskReplies(state.current_profile[t], t) :
          \E r \in {OnReply(state.file, outcome)} :
             /\ state' = [state EXCEPT !.file = r.file, !.attempts[t] = @ + 1]
             /\ trace' = Append(trace, [node |-> "chat", task |-> t, in |-> state.file,
                                        out |-> r, reply |-> outcome])
             /\ pc' = [pc EXCEPT ![t] = IF r.returns \/ state.attempts[t] + 1 = max_retries
                                        THEN "returned" ELSE "chat"]

\* the turn that created the task streams its answer and ends
TurnEnds(t) ==
    /\ state.turn[t] = "running"
    /\ state' = [state EXCEPT !.turn[t] = "ended"]
    /\ UNCHANGED <<pc, trace>>

ProfilesNext == \E t \in Turns : TaskRead(t) \/ TaskAttempt(t) \/ TurnEnds(t)

SpecProfiles == ProfilesInit /\ [][ProfilesNext]_vars

(***************************************************************************)
(* C39: the profile update a turn starts in the background never blocks    *)
(* or fails the turn, and overlapping updates lose nothing: when the tasks *)
(* of two turns overlap and both replies are accepted, the file at the end *)
(* was derived from a read that included the other task's write.           *)
(***************************************************************************)
\* the steps in which a task wrote the file
Writes ==
    { i \in DOMAIN trace :
        /\ trace[i].node = "chat"
        /\ ~trace[i].reply.raises
        /\ Strip(Get(trace[i].reply.msg, "content", <<>>)) # NO_UPDATE
        /\ trace[i].out.returns }

\* the step in which a task read the file
ReadOf(t) == CHOOSE i \in DOMAIN trace : trace[i].node = "read" /\ trace[i].task = t

TasksEnded == \A t \in Turns : pc[t] \in {"returned", "failed"}

C39_NoLostUpdate ==
    /\ \A t \in Turns : state.turn[t] = "running" => ENABLED TurnEnds(t)
    /\ (TasksEnded /\ \A t \in Turns : \E i \in Writes : trace[i].task = t) =>
          \E i, j \in Writes :
              /\ trace[i].task # trace[j].task
              /\ i < j
              /\ \A k \in Writes : k <= j
              /\ i < ReadOf(trace[j].task)

(***************************************************************************)
(* C40: a turn of CoordinatorAgent.run_stream ends after at most 5 model   *)
(* calls and at most 5 tool executions, persists one user message, and at  *)
(* its end one assistant message, holding the final answer, has been       *)
(* persisted - also when the model answers with tool calls until the       *)
(* iteration limit.                                                        *)
(***************************************************************************)
Rounds == { i \in DOMAIN trace : trace[i].node = "round" }

TurnEnded == pc \in {"done", "exhausted"}

C40_EndsWithOneAnswer ==
    /\ Cardinality(Rounds) <= 5
    /\ Cardinality({ i \in Rounds : trace[i].out.executed }) <= 5
    /\ pc = "loop" => ENABLED AgentNext
    /\ TurnEnded =>
          /\ Len(SelectSeq(state.stored,
                           LAMBDA m : m = Message("user", state.user_input))) = 1
          /\ Cardinality({ i \in Rounds : trace[i].out.saved # <<>> }) = 1
          /\ Len(trace[Len(trace)].out.saved) = 1
          /\ trace[Len(trace)].out.saved[1].role = "assistant"

====
